---- MODULE Spec2Model ----
(***************************************************************************)
(* The school site console of src/App.tsx as a state machine.              *)
(*                                                                         *)
(* The Store (./services/db, imported at src/App.tsx:8) is shared by all   *)
(* sessions; its source is not part of src/, so its operations (Db...) are *)
(* written from the contract of spec.md sections 4 and 6.  Each session is *)
(* one browser running App: the App state (config, user, route), the       *)
(* LoginPage state, the Dashboard state, and the async handlers that are   *)
(* suspended at an await.  A handler started by a click runs up to its     *)
(* first await in one step; the awaited Store operation takes effect and   *)
(* the rest of the handler runs in a later step.                           *)
(***************************************************************************)
EXTENDS Integers, Sequences, FiniteSets, TLC

VARIABLES
    dbConfig,     \* Store: the SiteConfig singleton
    dbNews,       \* Store: news collection (sequence of items)
    dbEvents,     \* Store: events collection
    dbGallery,    \* Store: gallery collection
    dbUsers,      \* Store: the account directory (sequence of UserProfile)
    dbCreds,      \* Store: credentials, a set of [email, password]
    dbSession,    \* Store: per browser, the current-session marker
    config,       \* App state: config, per session
    user,         \* App state: user (NoUser for null), per session
    page,         \* the route shown by a session: init, home, login, dashboard
    login,        \* LoginPage state per session: error, loading
    home,         \* HomePage state per session: its lists, its reads in flight
    dash,         \* Dashboard state per session
    pending,      \* per session, the handlers suspended at an await
    now,          \* the clock Date.now() reads
    calls,        \* the guarded Store operations (getUsers and the mutators)
                  \* invoked by the last step
    ret,          \* the outcome of the Store operation completed by the last step
    saved         \* what updateConfig and the save operations were last handed

storeVars == <<dbConfig, dbNews, dbEvents, dbGallery, dbUsers, dbCreds, dbSession>>
appVars == <<config, user, page>>
vars == <<dbConfig, dbNews, dbEvents, dbGallery, dbUsers, dbCreds, dbSession,
          config, user, page, login, home, dash, pending, now, calls, ret, saved>>

---------------------------------------------------------------------------
(* Bounds of the model *)

\* directory size: registrations stop when the directory holds MaxUsers profiles
MaxUsers == 3
\* handlers one session may have suspended at the same time
MaxPending == 1
\* the clock runs from 1 to MaxClock
MaxClock == 2
\* items the three content collections may hold together
MaxItems == 2
\* items the Store may hold when the session of SpecConsole publishes one more
MaxConsoleItems == 1
\* saves of the configuration one session of SpecSaving may have suspended
MaxSaves == 2

Sessions == {"s1", "s2"}

---------------------------------------------------------------------------
(* Data model: src/types.ts *)

UserRole == {"dev", "editor", "pending", "viewer"}

\* user: UserProfile | null -- null is this record (uid 0 is no profile's uid)
NoUser == [uid |-> 0, email |-> "", displayName |-> "", role |-> "none"]

DEFAULT_CONFIG ==
    [schoolName |-> "Sarvodaya Bal Vidhayalaya",
     schoolId |-> "1925056",
     address |-> "Sector 4, RK Puram, New Delhi",
     email |-> "contact@sbv-school.com",
     phone |-> "+91 11 2345 6789",
     primaryColor |-> "#1e40af",
     accentColor |-> "#ca8a04",
     heroTitle |-> "Empowering Future Leaders",
     heroSubtitle |-> "Excellence in Education, Character, and Innovation",
     heroImage |-> "https://picsum.photos/1920/1080?grayscale",
     principalName |-> "Dr. R.K. Sharma",
     principalMessage |-> "Welcome to SBV.",
     principalPhoto |-> "https://picsum.photos/400/400?people",
     stats |-> [students |-> 1200, teachers |-> 85, awards |-> 150, years |-> 45],
     features |-> [showNews |-> TRUE, showEvents |-> TRUE, showGallery |-> TRUE]]

\* {} : an object with no fields (the empty draft, setNewItem({}))
EmptyObj == <<>>

\* { ...a, ...b } : the fields of a, overridden and extended by those of b
Spread(a, b) ==
    [k \in (DOMAIN a) \cup (DOMAIN b) |-> IF k \in DOMAIN b THEN b[k] ELSE a[k]]

\* xs.filter(x => x.id !== id)
RECURSIVE FilterOutId(_, _)
FilterOutId(xs, id) ==
    IF xs = <<>> THEN <<>>
    ELSE IF Head(xs)["id"] # id
         THEN <<Head(xs)>> \o FilterOutId(Tail(xs), id)
         ELSE FilterOutId(Tail(xs), id)

\* the sequence xs without its i-th element
RemoveAt(xs, i) == SubSeq(xs, 1, i - 1) \o SubSeq(xs, i + 1, Len(xs))

---------------------------------------------------------------------------
(* The Store: ./services/db.  Its source is not under src/; these          *)
(* operators are written from spec.md sections 4.1-4.3 and 6.              *)

\* the directory and credentials a fresh Store holds: one dev account (no
\* operation creates one, and approve/revoke need one) and one viewer account
SeedUsers ==
    << [uid |-> 1, email |-> "dev", displayName |-> "Dev", role |-> "dev"],
       [uid |-> 2, email |-> "view", displayName |-> "View", role |-> "viewer"] >>

SeedCreds ==
    { [email |-> "dev", password |-> "p"], [email |-> "view", password |-> "p"] }

\* register: the email is already registered
DbHasEmail(users, email) == \E i \in DOMAIN users : users[i].email = email

\* (mutant) a registration that creates an editor
DbNewProfileEditor(users, email, name) ==
    [uid |-> Len(users) + 1, email |-> email, displayName |-> name, role |-> "editor"]

\* register: the profile a successful registration creates
DbNewProfile(users, email, name) ==
    [uid |-> Len(users) + 1, email |-> email, displayName |-> name, role |-> "pending"]

\* login: the profile of the account matching email and password, or NoUser
DbLoginProfile(users, creds, email, password) ==
    IF /\ [email |-> email, password |-> password] \in creds
       /\ DbHasEmail(users, email)
    THEN LET i == CHOOSE j \in DOMAIN users : users[j].email = email IN users[i]
    ELSE NoUser

\* (mutant) register that replaces the credential of an email already registered
DbRegisterOverwrites(users, creds, email, password, name) ==
    IF DbHasEmail(users, email)
    THEN [result |-> "DuplicateAccount", profile |-> NoUser, users |-> users,
          creds |-> {c \in creds : c.email # email}
                    \cup {[email |-> email, password |-> password]}]
    ELSE [result |-> "ok", profile |-> DbNewProfile(users, email, name),
          users |-> Append(users, DbNewProfile(users, email, name)),
          creds |-> creds \cup {[email |-> email, password |-> password]}]

\* register(email, password, displayName): DuplicateAccount when the email is
\* already registered; otherwise a new profile with role pending, stored with
\* its credential.  The outcome: result, the profile returned, and the
\* directory and credentials afterwards.
DbRegister(users, creds, email, password, name) ==
    IF DbHasEmail(users, email)
    THEN [result |-> "DuplicateAccount", profile |-> NoUser,
          users |-> users, creds |-> creds]
    ELSE [result |-> "ok", profile |-> DbNewProfile(users, email, name),
          users |-> Append(users, DbNewProfile(users, email, name)),
          creds |-> creds \cup {[email |-> email, password |-> password]}]

\* login(email, password): InvalidCredentials when no record matches
DbLogin(users, creds, email, password) ==
    IF DbLoginProfile(users, creds, email, password) = NoUser
    THEN [result |-> "InvalidCredentials", profile |-> NoUser]
    ELSE [result |-> "ok", profile |-> DbLoginProfile(users, creds, email, password)]

\* updateUserRole: uid is in the directory
DbHasUid(users, uid) == \E i \in DOMAIN users : users[i].uid = uid

\* updateUserRole: the directory with uid's role set to role
DbSetRole(users, uid, role) ==
    [i \in DOMAIN users |->
        IF users[i].uid = uid THEN [users[i] EXCEPT !.role = role] ELSE users[i]]

\* (mutant) updateUserRole that creates a profile for a uid it does not find
DbUpdateUserRoleUpserts(users, uid, role) ==
    IF DbHasUid(users, uid)
    THEN [result |-> "ok", users |-> DbSetRole(users, uid, role)]
    ELSE [result |-> "NotFound",
          users |-> Append(users, [uid |-> uid, email |-> "", displayName |-> "",
                                   role |-> role])]

\* updateUserRole(uid, newRole): NotFound when uid is absent
DbUpdateUserRole(users, uid, role) ==
    IF DbHasUid(users, uid)
    THEN [result |-> "ok", users |-> DbSetRole(users, uid, role)]
    ELSE [result |-> "NotFound", users |-> users]

\* the role the directory holds for uid ("none" when absent)
DbRoleOf(users, uid) ==
    IF DbHasUid(users, uid)
    THEN LET i == CHOOSE j \in DOMAIN users : users[j].uid = uid IN users[i].role
    ELSE "none"

\* (mutant) an updateConfig that merges: the nested stats record is kept
DbUpdateConfigKeepsStats(cfg, next) == [next EXCEPT !.stats = cfg.stats]

\* updateConfig(next) on a Store holding cfg: replaces the singleton wholesale
DbUpdateConfig(cfg, next) == next

\* getConfig() on a Store holding cfg
DbGetConfig(cfg) == cfg

\* (mutant) a save that keeps the previous contents after the new ones
DbSaveKeepsOld(items, next) == next \o items

\* (mutant) a save that merges: items held and not in next are kept after next
DbSaveMerges(items, next) ==
    next \o SelectSeq(items, LAMBDA x : \A i \in DOMAIN next : next[i] # x)

\* save(next) on a collection holding items: replaces the collection wholesale
DbSave(items, next) == next

---------------------------------------------------------------------------
(* Session state *)

\* a Store operation invoked by session s: cur is the App's user when it is
\* invoked, by is the user captured by the handler or render that invokes it
Call(op, s, cur, by) == [op |-> op, sess |-> s, cur |-> cur, by |-> by]

\* what the Store has been handed so far: the value of the last updateConfig
\* (hasConfig: there was one) and the sequence of the last save of each
\* collection (the empty sequence before the first)
NothingSaved ==
    [hasConfig |-> FALSE, config |-> DEFAULT_CONFIG,
     news |-> <<>>, events |-> <<>>, gallery |-> <<>>]

\* a handler suspended at an await: kind is the handler, alive whether the
\* component that started it is still mounted, by the user its closure captured;
\* the other fields are the arguments of the Store operation it awaits
Handler(kind, by) ==
    [kind |-> kind, alive |-> TRUE, by |-> by, op |-> "",
     email |-> "", password |-> "", name |-> "",
     uid |-> 0, role |-> "", items |-> <<>>, form |-> DEFAULT_CONFIG]

\* the Store operation awaited by handler h has completed for session s with
\* this result; the arguments it was given are kept with it
Ret(op, s, result, h) ==
    [op |-> op, sess |-> s, result |-> result, email |-> h.email,
     password |-> h.password, uid |-> h.uid, role |-> h.role]

\* the last step completed no Store operation
NoRet == Ret("", "", "", Handler("", NoUser))

DashKinds ==
    {"handleAddNews", "handleDeleteNews", "handleAddEvent", "deleteEvent",
     "handleAddGallery", "deleteGallery", "handleSaveConfig", "handleUserAction",
     "handleFile"}

\* the handlers q with those of the given kinds marked as started by a
\* component that has been unmounted
Orphan(q, kinds) ==
    [i \in DOMAIN q |->
        IF q[i].kind \in kinds THEN [q[i] EXCEPT !.alive = FALSE] ELSE q[i]]

\* refreshData: the collections it reads for a Dashboard rendered for user u
RefreshReads(u) ==
    {"news", "events", "gallery"} \cup (IF u.role = "dev" THEN {"users"} ELSE {})

\* refreshData: of the Store operations it invokes, the one that is not open
\* to every visitor (calls records no getNews, getEvents or getGallery)
RefreshCalls(s, cur, u) ==
    IF u.role = "dev" THEN {Call("getUsers", s, cur, u)} ELSE {}

\* the state of a Dashboard that has just been mounted with config cfg for
\* user u: the useState initial values, and the reads of the mount effect
DashFresh(cfg, u) ==
    [activeTab |-> "overview", contentTab |-> "news", saving |-> FALSE,
     news |-> <<>>, events |-> <<>>, gallery |-> <<>>, users |-> <<>>,
     newItem |-> EmptyObj, siteForm |-> cfg, reading |-> RefreshReads(u)]

\* no Dashboard is mounted
DashIdle == [DashFresh(DEFAULT_CONFIG, NoUser) EXCEPT !.reading = {}]

\* the state of a LoginPage that has just been mounted
LoginIdle == [error |-> "", loading |-> FALSE]

\* the state of a HomePage that has just been mounted: the useState initial
\* values, and the three reads of its effect
HomeFresh ==
    [news |-> <<>>, events |-> <<>>, gallery |-> <<>>,
     reading |-> {"news", "events", "gallery"}]

\* no HomePage is mounted
HomeIdle == [HomeFresh EXCEPT !.reading = {}]

\* the Dashboard of session s shows its console (not the redirect, not the
\* pending notice)
ConsoleShown(s) ==
    /\ page[s] = "dashboard"
    /\ user[s] # NoUser
    /\ user[s].role # "pending"

\* Routing: session s goes to route p with user u, config cfg and suspended
\* handlers q.  A Dashboard that is mounted runs its effect (refreshData); with
\* no user it renders <Navigate to="/login" />.  Leaving a component resets it
\* and orphans its handlers.
ToPage(s, p, u, cfg, q) ==
    LET mounts == p = "dashboard" /\ page[s] # "dashboard"
        final == IF p = "dashboard" /\ u = NoUser THEN "login" ELSE p
        keepDash == page[s] = "dashboard" /\ final = "dashboard"
        keepLogin == page[s] = "login" /\ p = "login"
        keepHome == page[s] = "home" /\ final = "home"
    IN [page |-> final,
        home |-> IF keepHome THEN home[s]
                 ELSE IF final = "home" THEN HomeFresh ELSE HomeIdle,
        dash |-> IF keepDash THEN dash[s]
                 ELSE IF final = "dashboard" THEN DashFresh(cfg, u) ELSE DashIdle,
        login |-> IF keepLogin THEN login[s] ELSE LoginIdle,
        pending |-> Orphan(Orphan(q, IF keepDash THEN {} ELSE DashKinds),
                           IF keepLogin THEN {} ELSE {"handleSubmit"}),
        calls |-> IF mounts THEN RefreshCalls(s, u, u) ELSE {}]

---------------------------------------------------------------------------
(* Initial state: a fresh Store, and every session an App that has just    *)
(* been constructed (init = true, the load effect not yet finished).       *)

Init ==
    /\ dbConfig = DEFAULT_CONFIG
    /\ dbNews = <<>>
    /\ dbEvents = <<>>
    /\ dbGallery = <<>>
    /\ dbUsers = SeedUsers
    /\ dbCreds = SeedCreds
    /\ dbSession = [s \in Sessions |-> NoUser]
    /\ config = [s \in Sessions |-> DEFAULT_CONFIG]
    /\ user = [s \in Sessions |-> NoUser]
    /\ page = [s \in Sessions |-> "init"]
    /\ login = [s \in Sessions |-> LoginIdle]
    /\ home = [s \in Sessions |-> HomeIdle]
    /\ dash = [s \in Sessions |-> DashIdle]
    /\ pending = [s \in Sessions |-> <<>>]
    /\ now = 1
    /\ calls = {}
    /\ ret = NoRet
    /\ saved = NothingSaved

---------------------------------------------------------------------------
(* App *)

\* (mutant) a load effect that does not restore the session: setUser(null)
loadSignedOut(s) ==
    /\ page[s] = "init"
    /\ config' = [config EXCEPT ![s] = DbGetConfig(dbConfig)]
    /\ user' = [user EXCEPT ![s] = NoUser]
    /\ page' = [page EXCEPT ![s] = "home"]
    /\ calls' = {}
    /\ home' = [home EXCEPT ![s] = HomeFresh]
    /\ ret' = Ret("getConfig", s, "ok", Handler("", NoUser))
    /\ UNCHANGED <<storeVars, login, dash, pending, now, saved>>

\* App's load effect: c = await db.getConfig(); setConfig(c);
\* u = db.getCurrentUser(); setUser(u); setInit(false)
load(s) ==
    /\ page[s] = "init"
    /\ config' = [config EXCEPT ![s] = DbGetConfig(dbConfig)]
    /\ user' = [user EXCEPT ![s] = dbSession[s]]
    /\ page' = [page EXCEPT ![s] = "home"]
    /\ calls' = {}
    /\ home' = [home EXCEPT ![s] = HomeFresh]
    /\ ret' = Ret("getConfig", s, "ok", Handler("", NoUser))
    /\ UNCHANGED <<storeVars, login, dash, pending, now, saved>>

\* the browser reloads the page: App is constructed again, and the handlers
\* of the old page are gone with it
Reload(s) ==
    /\ page[s] # "init"
    /\ config' = [config EXCEPT ![s] = DEFAULT_CONFIG]
    /\ user' = [user EXCEPT ![s] = NoUser]
    /\ page' = [page EXCEPT ![s] = "init"]
    /\ login' = [login EXCEPT ![s] = LoginIdle]
    /\ home' = [home EXCEPT ![s] = HomeIdle]
    /\ dash' = [dash EXCEPT ![s] = DashIdle]
    /\ pending' = [pending EXCEPT ![s] = <<>>]
    /\ calls' = {}
    /\ ret' = NoRet
    /\ UNCHANGED <<storeVars, now, saved>>

\* a link or the address bar takes the session to route p (the Routes of App)
Navigate(s, p) ==
    /\ page[s] # "init"
    /\ p \in {"home", "login", "dashboard"}
    /\ p # page[s]
    /\ LET r == ToPage(s, p, user[s], config[s], pending[s]) IN
        /\ page' = [page EXCEPT ![s] = r.page]
        /\ dash' = [dash EXCEPT ![s] = r.dash]
        /\ login' = [login EXCEPT ![s] = r.login]
        /\ home' = [home EXCEPT ![s] = r.home]
        /\ pending' = [pending EXCEPT ![s] = r.pending]
        /\ calls' = r.calls
    /\ ret' = NoRet
    /\ UNCHANGED <<storeVars, config, user, now, saved>>

\* (mutant) a logout that forgets db.logout(): setUser(null); navigate('/')
handleLogoutLocalOnly(s) ==
    /\ \/ page[s] = "home" /\ user[s] # NoUser
       \/ ConsoleShown(s)
    /\ user' = [user EXCEPT ![s] = NoUser]
    /\ LET r == ToPage(s, "home", NoUser, config[s], pending[s]) IN
        /\ page' = [page EXCEPT ![s] = r.page]
        /\ dash' = [dash EXCEPT ![s] = r.dash]
        /\ login' = [login EXCEPT ![s] = r.login]
        /\ home' = [home EXCEPT ![s] = r.home]
        /\ pending' = [pending EXCEPT ![s] = r.pending]
    /\ calls' = {}
    /\ ret' = Ret("logout", s, "ok", Handler("", NoUser))
    /\ UNCHANGED <<storeVars, config, now, saved>>

\* Navbar.handleLogout and the Dashboard's logout button:
\* db.logout(); setUser(null); navigate('/')
handleLogout(s) ==
    /\ \/ page[s] = "home" /\ user[s] # NoUser
       \/ ConsoleShown(s)
    /\ dbSession' = [dbSession EXCEPT ![s] = NoUser]
    /\ user' = [user EXCEPT ![s] = NoUser]
    /\ LET r == ToPage(s, "home", NoUser, config[s], pending[s]) IN
        /\ page' = [page EXCEPT ![s] = r.page]
        /\ dash' = [dash EXCEPT ![s] = r.dash]
        /\ login' = [login EXCEPT ![s] = r.login]
        /\ home' = [home EXCEPT ![s] = r.home]
        /\ pending' = [pending EXCEPT ![s] = r.pending]
    /\ calls' = {}
    /\ ret' = Ret("logout", s, "ok", Handler("", NoUser))
    /\ UNCHANGED <<dbConfig, dbNews, dbEvents, dbGallery, dbUsers, dbCreds,
                   config, now, saved>>

---------------------------------------------------------------------------
(* LoginPage *)

\* LoginPage.handleSubmit up to its await: setError(''); setLoading(true);
\* db.register(email, password, name) or db.login(email, password)
handleSubmit(s, isRegistering, email, password, name) ==
    /\ page[s] = "login"
    /\ Len(pending[s]) < MaxPending
    /\ (isRegistering /\ ~DbHasEmail(dbUsers, email)) => Len(dbUsers) < MaxUsers
    /\ login' = [login EXCEPT ![s] = [error |-> "", loading |-> TRUE]]
    /\ pending' = [pending EXCEPT ![s] = Append(@,
            [Handler("handleSubmit", user[s]) EXCEPT
                !.op = IF isRegistering THEN "register" ELSE "login",
                !.email = email, !.password = password,
                !.name = IF isRegistering THEN name ELSE ""])]
    /\ calls' = {}
    /\ ret' = NoRet
    /\ UNCHANGED <<storeVars, appVars, home, dash, now, saved>>

\* the outcome of the Store operation handleSubmit awaits
SubmitOutcome(h) ==
    IF h.op = "register"
    THEN DbRegister(dbUsers, dbCreds, h.email, h.password, h.name)
    ELSE [result |-> DbLogin(dbUsers, dbCreds, h.email, h.password).result,
          profile |-> DbLogin(dbUsers, dbCreds, h.email, h.password).profile,
          users |-> dbUsers, creds |-> dbCreds]

\* handleSubmit after its await, the Store operation succeeded (and made the
\* profile the session's current user):
\* setUser(user); navigate('/dashboard'); finally setLoading(false)
SubmitSucceeds(s, i) ==
    /\ i \in DOMAIN pending[s]
    /\ pending[s][i].kind = "handleSubmit"
    /\ SubmitOutcome(pending[s][i]).result = "ok"
    /\ LET h == pending[s][i]
           o == SubmitOutcome(h)
           r == ToPage(s, "dashboard", o.profile, config[s], RemoveAt(pending[s], i))
       IN
        /\ Len(o.users) <= MaxUsers
        /\ dbUsers' = o.users
        /\ dbCreds' = o.creds
        /\ dbSession' = [dbSession EXCEPT ![s] = o.profile]
        /\ user' = [user EXCEPT ![s] = o.profile]
        /\ page' = [page EXCEPT ![s] = r.page]
        /\ dash' = [dash EXCEPT ![s] = r.dash]
        /\ login' = [login EXCEPT ![s] = r.login]
        /\ home' = [home EXCEPT ![s] = r.home]
        /\ pending' = [pending EXCEPT ![s] = r.pending]
        /\ calls' = r.calls
        /\ ret' = Ret(h.op, s, "ok", h)
    /\ UNCHANGED <<dbConfig, dbNews, dbEvents, dbGallery, config, now, saved>>

\* (mutant) a catch branch that also runs setUser(null)
SubmitFailsClearsUser(s, i) ==
    /\ i \in DOMAIN pending[s]
    /\ pending[s][i].kind = "handleSubmit"
    /\ SubmitOutcome(pending[s][i]).result # "ok"
    /\ login' = [login EXCEPT ![s] =
            IF pending[s][i].alive
            THEN [error |-> SubmitOutcome(pending[s][i]).result, loading |-> FALSE]
            ELSE @]
    /\ user' = [user EXCEPT ![s] = NoUser]
    /\ pending' = [pending EXCEPT ![s] = RemoveAt(@, i)]
    /\ ret' = Ret(pending[s][i].op, s, SubmitOutcome(pending[s][i]).result, pending[s][i])
    /\ calls' = {}
    /\ UNCHANGED <<storeVars, config, page, home, dash, now, saved>>

\* (mutant) a handleSubmit without its finally block
SubmitFailsKeepsLoading(s, i) ==
    /\ i \in DOMAIN pending[s]
    /\ pending[s][i].kind = "handleSubmit"
    /\ SubmitOutcome(pending[s][i]).result # "ok"
    /\ login' = [login EXCEPT ![s] =
            IF pending[s][i].alive
            THEN [error |-> SubmitOutcome(pending[s][i]).result, loading |-> TRUE]
            ELSE @]
    /\ pending' = [pending EXCEPT ![s] = RemoveAt(@, i)]
    /\ ret' = Ret(pending[s][i].op, s, SubmitOutcome(pending[s][i]).result, pending[s][i])
    /\ calls' = {}
    /\ UNCHANGED <<storeVars, appVars, home, dash, now, saved>>

\* handleSubmit after its await, the Store operation threw:
\* catch: setError(err.message); finally setLoading(false)
SubmitFails(s, i) ==
    /\ i \in DOMAIN pending[s]
    /\ pending[s][i].kind = "handleSubmit"
    /\ SubmitOutcome(pending[s][i]).result # "ok"
    /\ LET h == pending[s][i]
           o == SubmitOutcome(h)
       IN
        /\ dbUsers' = o.users
        /\ dbCreds' = o.creds
        /\ login' = [login EXCEPT ![s] =
                IF h.alive THEN [error |-> o.result, loading |-> FALSE] ELSE @]
        /\ pending' = [pending EXCEPT ![s] = RemoveAt(@, i)]
        /\ ret' = Ret(h.op, s, o.result, h)
    /\ calls' = {}
    /\ UNCHANGED <<dbConfig, dbNews, dbEvents, dbGallery, dbSession, appVars,
                   home, dash, now, saved>>

---------------------------------------------------------------------------
(* Dashboard: tabs, refreshData *)

\* the sidebar tabs: User Management only when user.role === 'dev'
Tabs(u) == {"overview", "content", "site"} \cup (IF u.role = "dev" THEN {"users"} ELSE {})

\* a sidebar button: setActiveTab(tab.id); the effect on [activeTab, contentTab]
\* runs refreshData
setActiveTab(s, t) ==
    /\ ConsoleShown(s)
    /\ t \in Tabs(user[s])
    /\ t # dash[s].activeTab
    /\ dash' = [dash EXCEPT ![s].activeTab = t,
                            ![s].reading = @ \cup RefreshReads(user[s])]
    /\ calls' = RefreshCalls(s, user[s], user[s])
    /\ ret' = NoRet
    /\ UNCHANGED <<storeVars, appVars, login, home, pending, now, saved>>

\* a Content Manager tab button: setContentTab(t); the effect runs refreshData
setContentTab(s, t) ==
    /\ ConsoleShown(s)
    /\ dash[s].activeTab = "content"
    /\ t \in {"news", "events", "gallery"}
    /\ t # dash[s].contentTab
    /\ dash' = [dash EXCEPT ![s].contentTab = t,
                            ![s].reading = @ \cup RefreshReads(user[s])]
    /\ calls' = RefreshCalls(s, user[s], user[s])
    /\ ret' = NoRet
    /\ UNCHANGED <<storeVars, appVars, login, home, pending, now, saved>>

\* what a read of refreshData returns: db.getNews(), db.getEvents(),
\* db.getGallery(), db.getUsers()
DbList(c) ==
    CASE c = "news" -> dbNews
      [] c = "events" -> dbEvents
      [] c = "gallery" -> dbGallery
      [] c = "users" -> dbUsers

\* the reads of refreshData resolve: .then(setNews), .then(setEvents),
\* .then(setGallery), .then(setUsers).  They were issued together and resolve
\* together, each delivering the collection as the Store holds it then.
refreshResolves(s) ==
    /\ dash[s].reading # {}
    /\ dash' = [dash EXCEPT
            ![s].reading = {},
            ![s].news = IF "news" \in dash[s].reading THEN DbList("news") ELSE @,
            ![s].events = IF "events" \in dash[s].reading THEN DbList("events") ELSE @,
            ![s].gallery = IF "gallery" \in dash[s].reading THEN DbList("gallery") ELSE @,
            ![s].users = IF "users" \in dash[s].reading THEN DbList("users") ELSE @]
    /\ calls' = {}
    /\ ret' = Ret("list", s, "ok", Handler("", NoUser))
    /\ UNCHANGED <<storeVars, appVars, login, home, pending, now, saved>>

\* (mutant) a handler that ends without refreshData()
AfterNoRefresh(d, h) == d

\* the Dashboard state after the trailing refreshData() of handler h: the
\* reads are issued either way, their results reach a mounted Dashboard only
AfterRefresh(d, h) ==
    IF h.alive THEN [d EXCEPT !.reading = @ \cup RefreshReads(h.by)] ELSE d

\* time passes
Tick ==
    /\ now < MaxClock
    /\ now' = now + 1
    /\ calls' = {}
    /\ ret' = NoRet
    /\ UNCHANGED <<storeVars, appVars, login, home, dash, pending, saved>>

---------------------------------------------------------------------------
(* Dashboard: Content Manager *)

\* (mutant) a news form with an input bound to the id of the draft
DraftFieldsWithId(tab) ==
    CASE tab = "news" -> {"title", "date", "content", "id"}
      [] tab = "events" -> {"title", "date", "location", "description"}
      [] tab = "gallery" -> {"title", "category", "url"}

\* the inputs of each content form, all bound to the one newItem draft
DraftFields(tab) ==
    CASE tab = "news" -> {"title", "date", "content"}
      [] tab = "events" -> {"title", "date", "location", "description"}
      [] tab = "gallery" -> {"title", "category", "url"}

\* an input of the shown content form: setNewItem({...newItem, [f]: v})
setNewItem(s, f, v) ==
    /\ ConsoleShown(s)
    /\ dash[s].activeTab = "content"
    /\ f \in DraftFields(dash[s].contentTab)
    /\ dash' = [dash EXCEPT ![s].newItem = Spread(@, [k \in {f} |-> v])]
    /\ calls' = {}
    /\ ret' = NoRet
    /\ UNCHANGED <<storeVars, appVars, login, home, pending, now, saved>>

\* Date.now().toString()
NewId == ToString(now)

\* a content handler up to its await: db.save<Coll>(items) is invoked
\* the Store has room for collection c to be replaced by a list of n items:
\* the three collections together hold at most MaxItems
Fits(c, n) == Len(dbNews) + Len(dbEvents) + Len(dbGallery) - Len(DbList(c)) + n <= MaxItems

StartSave(s, kind, op, items) ==
    /\ ConsoleShown(s)
    /\ dash[s].activeTab = "content"
    /\ Len(pending[s]) < MaxPending
    /\ pending' = [pending EXCEPT ![s] = Append(@,
            [Handler(kind, user[s]) EXCEPT !.op = op, !.items = items])]
    /\ calls' = {Call(op, s, user[s], user[s])}
    /\ ret' = NoRet
    /\ UNCHANGED <<storeVars, appVars, login, home, dash, now, saved>>

\* handleAddNews up to its await:
\* item = { id: Date.now().toString(), active: true, ...newItem };
\* db.saveNews([item, ...news])
handleAddNews(s) ==
    /\ dash[s].contentTab = "news"
    /\ Fits("news", Len(dash[s].news) + 1)
    /\ StartSave(s, "handleAddNews", "saveNews",
            <<Spread([k \in {"id", "active"} |-> IF k = "id" THEN NewId ELSE TRUE],
                     dash[s].newItem)>> \o dash[s].news)

\* handleDeleteNews up to its await: db.saveNews(news.filter(n => n.id !== id))
handleDeleteNews(s, i) ==
    /\ dash[s].contentTab = "news"
    /\ i \in DOMAIN dash[s].news
    /\ StartSave(s, "handleDeleteNews", "saveNews",
            FilterOutId(dash[s].news, dash[s].news[i]["id"]))

\* (mutant) an add handler that saves the new item after the listed ones
handleAddEventAppends(s) ==
    /\ dash[s].contentTab = "events"
    /\ Fits("events", Len(dash[s].events) + 1)
    /\ StartSave(s, "handleAddEvent", "saveEvents",
            dash[s].events \o <<Spread([k \in {"id"} |-> NewId], dash[s].newItem)>>)

\* handleAddEvent up to its await:
\* item = { id: Date.now().toString(), ...newItem }; db.saveEvents([item, ...events])
handleAddEvent(s) ==
    /\ dash[s].contentTab = "events"
    /\ Fits("events", Len(dash[s].events) + 1)
    /\ StartSave(s, "handleAddEvent", "saveEvents",
            <<Spread([k \in {"id"} |-> NewId], dash[s].newItem)>> \o dash[s].events)

\* the delete button of an event row, up to its await:
\* db.saveEvents(events.filter(x => x.id !== e.id))
deleteEvent(s, i) ==
    /\ dash[s].contentTab = "events"
    /\ i \in DOMAIN dash[s].events
    /\ StartSave(s, "deleteEvent", "saveEvents",
            FilterOutId(dash[s].events, dash[s].events[i]["id"]))

\* handleAddGallery up to its await (the button is disabled while !newItem.url):
\* item = { id: Date.now().toString(), ...newItem }; db.saveGallery([item, ...gallery])
handleAddGallery(s) ==
    /\ dash[s].contentTab = "gallery"
    /\ "url" \in DOMAIN dash[s].newItem
    /\ dash[s].newItem["url"] # ""
    /\ Fits("gallery", Len(dash[s].gallery) + 1)
    /\ StartSave(s, "handleAddGallery", "saveGallery",
            <<Spread([k \in {"id"} |-> NewId], dash[s].newItem)>> \o dash[s].gallery)

\* the delete button of a gallery tile, up to its await:
\* db.saveGallery(gallery.filter(x => x.id !== g.id))
deleteGallery(s, i) ==
    /\ dash[s].contentTab = "gallery"
    /\ i \in DOMAIN dash[s].gallery
    /\ StartSave(s, "deleteGallery", "saveGallery",
            FilterOutId(dash[s].gallery, dash[s].gallery[i]["id"]))

\* a content handler after its await: the Store has replaced the collection;
\* the add handlers then setNewItem({}); all of them end with refreshData()
saveDone(s, i) ==
    /\ i \in DOMAIN pending[s]
    /\ pending[s][i].op \in {"saveNews", "saveEvents", "saveGallery"}
    /\ LET h == pending[s][i]
           isAdd == h.kind \in {"handleAddNews", "handleAddEvent", "handleAddGallery"}
       IN
        /\ dbNews' = IF h.op = "saveNews" THEN DbSave(dbNews, h.items) ELSE dbNews
        /\ dbEvents' = IF h.op = "saveEvents" THEN DbSave(dbEvents, h.items) ELSE dbEvents
        /\ dbGallery' = IF h.op = "saveGallery" THEN DbSave(dbGallery, h.items) ELSE dbGallery
        /\ saved' = [saved EXCEPT
                !.news = IF h.op = "saveNews" THEN h.items ELSE @,
                !.events = IF h.op = "saveEvents" THEN h.items ELSE @,
                !.gallery = IF h.op = "saveGallery" THEN h.items ELSE @]
        /\ dash' = [dash EXCEPT ![s] =
                AfterRefresh(IF isAdd /\ h.alive THEN [@ EXCEPT !.newItem = EmptyObj] ELSE @, h)]
        /\ pending' = [pending EXCEPT ![s] = RemoveAt(@, i)]
        /\ calls' = RefreshCalls(s, user[s], h.by)
        /\ ret' = Ret(h.op, s, "ok", h)
    /\ UNCHANGED <<dbConfig, dbUsers, dbCreds, dbSession, appVars, login, home, now>>

---------------------------------------------------------------------------
(* Dashboard: Site Editor *)

SiteTextFields ==
    {"schoolName", "schoolId", "address", "email", "phone", "primaryColor",
     "accentColor", "heroTitle", "heroSubtitle", "principalName", "principalMessage"}

\* a text or colour input of the Site Editor: setSiteForm({...siteForm, [f]: v})
setSiteFormText(s, f, v) ==
    /\ ConsoleShown(s)
    /\ dash[s].activeTab = "site"
    /\ f \in SiteTextFields
    /\ dash' = [dash EXCEPT ![s].siteForm = [@ EXCEPT ![f] = v]]
    /\ calls' = {}
    /\ ret' = NoRet
    /\ UNCHANGED <<storeVars, appVars, login, home, pending, now, saved>>

\* (mutant) a Features checkbox that forgets the spread of siteForm.features:
\* setSiteForm({...siteForm, features: {[k]: checked}})
setSiteFormFeatureAlone(s, k) ==
    /\ ConsoleShown(s)
    /\ dash[s].activeTab = "site"
    /\ k \in {"showNews", "showEvents", "showGallery"}
    /\ dash' = [dash EXCEPT ![s].siteForm.features = [x \in {k} |-> ~@[k]]]
    /\ calls' = {}
    /\ ret' = NoRet
    /\ UNCHANGED <<storeVars, appVars, login, home, pending, now, saved>>

\* a Features checkbox:
\* setSiteForm({...siteForm, features: {...siteForm.features, [k]: checked}})
setSiteFormFeature(s, k) ==
    /\ ConsoleShown(s)
    /\ dash[s].activeTab = "site"
    /\ k \in {"showNews", "showEvents", "showGallery"}
    /\ dash' = [dash EXCEPT ![s].siteForm.features[k] = ~@]
    /\ calls' = {}
    /\ ret' = NoRet
    /\ UNCHANGED <<storeVars, appVars, login, home, pending, now, saved>>

DigitChars == {"0", "1", "2", "3", "4", "5", "6", "7", "8", "9"}

DigitValue(c) ==
    CASE c = "0" -> 0 [] c = "1" -> 1 [] c = "2" -> 2 [] c = "3" -> 3 [] c = "4" -> 4
      [] c = "5" -> 5 [] c = "6" -> 6 [] c = "7" -> 7 [] c = "8" -> 8 [] c = "9" -> 9

\* the value of the longest prefix of digits of cs, continuing from acc
RECURSIVE DigitsPrefix(_, _)
DigitsPrefix(cs, acc) ==
    IF cs = <<>> \/ Head(cs) \notin DigitChars THEN acc
    ELSE DigitsPrefix(Tail(cs), 10 * acc + DigitValue(Head(cs)))

RECURSIVE SkipSpaces(_)
SkipSpaces(cs) == IF cs # <<>> /\ Head(cs) = " " THEN SkipSpaces(Tail(cs)) ELSE cs

\* parseInt(text) || 0, text a sequence of characters: leading white space, an
\* optional sign, then the digits up to the first other character; NaN (no
\* digit there) and 0 both give 0
ParseIntOr0(text) ==
    LET t == SkipSpaces(text)
        signed == t # <<>> /\ Head(t) \in {"-", "+"}
        body == IF signed THEN Tail(t) ELSE t
        isNaN == body = <<>> \/ Head(body) \notin DigitChars
        magnitude == DigitsPrefix(body, 0)
    IN IF isNaN THEN 0
       ELSE IF signed /\ Head(t) = "-" THEN 0 - magnitude ELSE magnitude

\* a School Statistics input: setSiteForm({...siteForm,
\*   stats: {...siteForm.stats, [k]: parseInt(e.target.value) || 0}})
setSiteFormStat(s, k, text) ==
    /\ ConsoleShown(s)
    /\ dash[s].activeTab = "site"
    /\ k \in {"students", "teachers", "awards", "years"}
    /\ dash' = [dash EXCEPT ![s].siteForm.stats[k] = ParseIntOr0(text)]
    /\ calls' = {}
    /\ ret' = NoRet
    /\ UNCHANGED <<storeVars, appVars, login, home, pending, now, saved>>

\* handleSaveConfig up to its first await (the Save button is disabled while
\* saving): setSaving(true); await new Promise(r => setTimeout(r, 800))
\* (n bounds the handlers the session has suspended)
handleSaveConfigWithin(s, n) ==
    /\ ConsoleShown(s)
    /\ dash[s].activeTab = "site"
    /\ ~dash[s].saving
    /\ Len(pending[s]) < n
    /\ dash' = [dash EXCEPT ![s].saving = TRUE]
    /\ pending' = [pending EXCEPT ![s] = Append(@,
            [Handler("handleSaveConfig", user[s]) EXCEPT
                !.op = "timer", !.form = dash[s].siteForm])]
    /\ calls' = {}
    /\ ret' = NoRet
    /\ UNCHANGED <<storeVars, appVars, login, home, now, saved>>

handleSaveConfig(s) == handleSaveConfigWithin(s, MaxPending)

\* handleSaveConfig after the timer, up to its second await:
\* db.updateConfig(siteForm) is invoked with the form the handler captured
saveConfigInvokes(s, i) ==
    /\ i \in DOMAIN pending[s]
    /\ pending[s][i].kind = "handleSaveConfig"
    /\ pending[s][i].op = "timer"
    /\ pending' = [pending EXCEPT ![s][i].op = "updateConfig"]
    /\ calls' = {Call("updateConfig", s, user[s], pending[s][i].by)}
    /\ ret' = NoRet
    /\ UNCHANGED <<storeVars, appVars, login, home, dash, now, saved>>

\* handleSaveConfig after its second await: the Store has replaced the
\* singleton; setConfig(siteForm); setSaving(false).  A mounted Dashboard's
\* effect on [config.schoolId] then runs setSiteForm(config).
saveConfigDone(s, i) ==
    /\ i \in DOMAIN pending[s]
    /\ pending[s][i].kind = "handleSaveConfig"
    /\ pending[s][i].op = "updateConfig"
    /\ LET h == pending[s][i] IN
        /\ dbConfig' = DbUpdateConfig(dbConfig, h.form)
        /\ saved' = [saved EXCEPT !.hasConfig = TRUE, !.config = h.form]
        /\ config' = [config EXCEPT ![s] = h.form]
        /\ dash' = [dash EXCEPT
                ![s].saving = IF h.alive THEN FALSE ELSE @,
                ![s].siteForm = IF page[s] = "dashboard"
                                   /\ h.form.schoolId # config[s].schoolId
                                THEN h.form ELSE @]
        /\ pending' = [pending EXCEPT ![s] = RemoveAt(@, i)]
        /\ home' = [home EXCEPT ![s].reading =
                IF page[s] = "home" THEN HomeFresh.reading ELSE @]
        /\ ret' = Ret("updateConfig", s, "ok", h)
    /\ calls' = {}
    /\ UNCHANGED <<dbNews, dbEvents, dbGallery, dbUsers, dbCreds, dbSession,
                   user, page, login, now>>

---------------------------------------------------------------------------
(* ImagePicker *)

\* the sizes in bytes of the files the user picks: the largest file that is
\* accepted and the smallest one that is not
FileSizes == {500 * 1024, 500 * 1024 + 1}

\* reader.readAsDataURL(file): the data URL of a file of n bytes
DataURL(n) == "data:" \o ToString(n)

\* (mutant) a picker that takes a file of any size
FileAcceptedAny(n) == TRUE

\* handleFile goes on to read the file: not (file.size > 500 * 1024)
FileAccepted(n) == ~(n > 500 * 1024)

\* the fields an ImagePicker is bound to: two of siteForm, one of newItem
ImageFields == {"heroImage", "principalPhoto", "url"}

\* the ImagePicker of field f is rendered for session s
PickerShown(s, f) ==
    /\ ConsoleShown(s)
    /\ f \in ImageFields
    /\ IF f = "url"
       THEN dash[s].activeTab = "content" /\ dash[s].contentTab = "gallery"
       ELSE dash[s].activeTab = "site"

\* ImagePicker.handleFile for a picked file of n bytes: too large, alert and
\* return; else a FileReader starts reading, its onload holding the onChange of
\* this render (which closes over siteForm and newItem)
handleFile(s, f, n) ==
    /\ PickerShown(s, f)
    /\ IF FileAccepted(n)
       THEN /\ Len(pending[s]) < MaxPending
            /\ pending' = [pending EXCEPT ![s] = Append(@,
                    [Handler("handleFile", user[s]) EXCEPT
                        !.op = f, !.name = DataURL(n),
                        !.form = dash[s].siteForm, !.items = <<dash[s].newItem>>])]
       ELSE pending' = pending
    /\ calls' = {}
    /\ ret' = NoRet
    /\ UNCHANGED <<storeVars, appVars, login, home, dash, now, saved>>

\* reader.onload: onChange(result), that is setSiteForm({...siteForm, [f]: val})
\* or setNewItem({...newItem, url: val}) with the captured form or draft
readerLoaded(s, i) ==
    /\ i \in DOMAIN pending[s]
    /\ pending[s][i].kind = "handleFile"
    /\ LET h == pending[s][i] IN
        dash' = IF ~h.alive THEN dash
                ELSE IF h.op = "url"
                THEN [dash EXCEPT ![s].newItem =
                        Spread(h.items[1], [k \in {"url"} |-> h.name])]
                ELSE [dash EXCEPT ![s].siteForm = [h.form EXCEPT ![h.op] = h.name]]
    /\ pending' = [pending EXCEPT ![s] = RemoveAt(@, i)]
    /\ calls' = {}
    /\ ret' = NoRet
    /\ UNCHANGED <<storeVars, appVars, login, home, now, saved>>

\* the remove button of a picker that shows an image: onChange('')
clearImage(s, f) ==
    /\ PickerShown(s, f)
    /\ IF f = "url"
       THEN /\ "url" \in DOMAIN dash[s].newItem
            /\ dash[s].newItem["url"] # ""
            /\ dash' = [dash EXCEPT ![s].newItem = Spread(@, [k \in {"url"} |-> ""])]
       ELSE /\ dash[s].siteForm[f] # ""
            /\ dash' = [dash EXCEPT ![s].siteForm[f] = ""]
    /\ calls' = {}
    /\ ret' = NoRet
    /\ UNCHANGED <<storeVars, appVars, login, home, pending, now, saved>>

---------------------------------------------------------------------------
(* HomePage *)

\* (mutant) a filter that lets every item through
IsActiveAlways(x) == TRUE

\* x => x.active
IsActive(x) == "active" \in DOMAIN x /\ x["active"] = TRUE

\* n.filter(x => x.active)
RECURSIVE ActiveOnly(_)
ActiveOnly(xs) ==
    IF xs = <<>> THEN <<>>
    ELSE IF IsActive(Head(xs))
         THEN <<Head(xs)>> \o ActiveOnly(Tail(xs))
         ELSE ActiveOnly(Tail(xs))

\* xs.slice(0, n)
Slice0(xs, n) == SubSeq(xs, 1, IF Len(xs) < n THEN Len(xs) ELSE n)

\* one read of the HomePage effect resolves: .then(n => setNews(n.filter(x =>
\* x.active))), .then(e => setEvents(e.slice(0, 3))) or
\* .then(g => setGallery(g.slice(0, 4))), with the collection as the Store
\* holds it then
homeResolves(s, c) ==
    /\ page[s] = "home"
    /\ c \in home[s].reading
    /\ home' = [home EXCEPT
            ![s].reading = @ \ {c},
            ![s].news = IF c = "news" THEN ActiveOnly(DbList("news")) ELSE @,
            ![s].events = IF c = "events" THEN Slice0(DbList("events"), 3) ELSE @,
            ![s].gallery = IF c = "gallery" THEN Slice0(DbList("gallery"), 4) ELSE @]
    /\ calls' = {}
    /\ ret' = Ret(CASE c = "news" -> "getNews"
                    [] c = "events" -> "getEvents"
                    [] c = "gallery" -> "getGallery",
                  s, "ok", Handler("", NoUser))
    /\ UNCHANGED <<storeVars, appVars, login, dash, pending, now, saved>>

\* the news ticker is rendered: config.features.showNews && news.length > 0
TickerShown(s) ==
    /\ page[s] = "home"
    /\ config[s].features.showNews
    /\ Len(home[s].news) > 0

---------------------------------------------------------------------------
(* Dashboard: User Management *)

\* (mutant) a users table that shows Approve in every row that is not a dev's
RowActionAlwaysApprove(u) == IF u.role = "dev" THEN "none" ELSE "approve"

\* (mutant) a users table with a button in the row of a dev too
RowActionForAll(u) == IF u.role = "pending" THEN "approve" ELSE "revoke"

\* the button the users table shows in the row of profile u:
\* none for a dev, Approve for a pending profile, Revoke for any other
RowAction(u) ==
    IF u.role = "dev" THEN "none"
    ELSE IF u.role = "pending" THEN "approve" ELSE "revoke"

\* handleUserAction up to its await, from the button of the i-th row:
\* db.updateUserRole(uid, action === 'approve' ? 'editor' : 'pending')
handleUserAction(s, i) ==
    /\ ConsoleShown(s)
    /\ dash[s].activeTab = "users"
    /\ user[s].role = "dev"
    /\ i \in DOMAIN dash[s].users
    /\ RowAction(dash[s].users[i]) # "none"
    /\ Len(pending[s]) < MaxPending
    /\ pending' = [pending EXCEPT ![s] = Append(@,
            [Handler("handleUserAction", user[s]) EXCEPT
                !.op = "updateUserRole",
                !.uid = dash[s].users[i].uid,
                !.role = IF RowAction(dash[s].users[i]) = "approve"
                         THEN "editor" ELSE "pending"])]
    /\ calls' = {Call("updateUserRole", s, user[s], user[s])}
    /\ ret' = NoRet
    /\ UNCHANGED <<storeVars, appVars, login, home, dash, now, saved>>

\* handleUserAction after its await: the Store has set the role, or has thrown
\* NotFound (then the handler ends there); otherwise refreshData()
userActionDone(s, i) ==
    /\ i \in DOMAIN pending[s]
    /\ pending[s][i].kind = "handleUserAction"
    /\ LET h == pending[s][i]
           o == DbUpdateUserRole(dbUsers, h.uid, h.role)
       IN
        /\ dbUsers' = o.users
        /\ dash' = [dash EXCEPT ![s] = IF o.result = "ok" THEN AfterRefresh(@, h) ELSE @]
        /\ pending' = [pending EXCEPT ![s] = RemoveAt(@, i)]
        /\ calls' = IF o.result = "ok" THEN RefreshCalls(s, user[s], h.by) ELSE {}
        /\ ret' = Ret("updateUserRole", s, o.result, h)
    /\ UNCHANGED <<dbConfig, dbNews, dbEvents, dbGallery, dbCreds, dbSession,
                   appVars, login, home, now, saved>>

---------------------------------------------------------------------------
(* Specifications *)

\* what is typed into the LoginPage form: <<isRegistering, email, password, name>>
AuthInputs ==
    { <<TRUE, "a", "p", "Ann">>,      \* new staff members register
      <<TRUE, "b", "p", "Bea">>,
      <<TRUE, "a", "q", "Al">>,       \* the email "a" again, other password and name
      <<FALSE, "dev", "p", "">>,      \* the seeded accounts log in
      <<FALSE, "view", "p", "">>,
      <<FALSE, "a", "p", "">>,
      <<FALSE, "a", "q", "">>,        \* right for one of the two registrations of "a"
      <<FALSE, "c", "p", "">> }       \* an email nobody registers

AccountStep(s) ==
    \/ load(s)
    \/ \E p \in {"home", "login", "dashboard"} : Navigate(s, p)
    \/ handleLogout(s)
    \/ \E a \in AuthInputs : handleSubmit(s, a[1], a[2], a[3], a[4])
    \/ \E i \in 1..MaxPending : SubmitSucceeds(s, i)
    \/ \E i \in 1..MaxPending : SubmitFails(s, i)
    \/ \E t \in {"overview", "content", "site", "users"} : setActiveTab(s, t)
    \/ \E i \in 1..MaxUsers : handleUserAction(s, i)
    \/ \E i \in 1..MaxPending : userActionDone(s, i)
    \/ refreshResolves(s)

Next == \E s \in {"s1"} : AccountStep(s)

Spec == Init /\ [][Next]_vars

\* The console's gate: who reaches which Config Model and Content Repository
\* mutator.  A session signs in as the seeded dev or viewer, or registers (and
\* is pending); the publishing handlers of the Content Manager and the save of
\* the Site Editor are there.
GateAuthInputs ==
    { <<TRUE, "a", "p", "Ann">>, <<FALSE, "dev", "p", "">>, <<FALSE, "view", "p", "">> }

GateStep(s) ==
    \/ load(s)
    \/ \E p \in {"home", "dashboard"} : Navigate(s, p)
    \/ handleLogout(s)
    \/ \E a \in GateAuthInputs : handleSubmit(s, a[1], a[2], a[3], a[4])
    \/ \E i \in 1..MaxPending : SubmitSucceeds(s, i)
    \/ \E i \in 1..MaxPending : SubmitFails(s, i)
    \/ \E t \in {"content", "site"} : setActiveTab(s, t)
    \/ \E t \in {"news", "events", "gallery"} : setContentTab(s, t)
    \/ setNewItem(s, "url", "u")
    \/ handleAddNews(s)
    \/ handleAddEvent(s)
    \/ handleAddGallery(s)
    \/ \E i \in 1..MaxPending : saveDone(s, i)
    \/ handleSaveConfig(s)
    \/ \E i \in 1..MaxPending : saveConfigInvokes(s, i)
    \/ \E i \in 1..MaxPending : saveConfigDone(s, i)
    \/ refreshResolves(s)

NextGate == \E s \in {"s1"} : GateStep(s)

SpecGate == Init /\ [][NextGate]_vars

\* The Site Editor: the dev signs in, edits the form, saves; the page is
\* reloaded and App loads the configuration again.
\* texts typed into a statistics input: digits, nothing, a negative number
StatTexts == { <<"7">>, <<>>, <<"-", "3">> }

ConfigStep(s) ==
    \/ load(s)
    \/ Reload(s)
    \/ Navigate(s, "dashboard")
    \/ handleSubmit(s, FALSE, "dev", "p", "")
    \/ \E i \in 1..MaxPending : SubmitSucceeds(s, i)
    \/ setActiveTab(s, "site")
    \/ \E f \in {"schoolName", "schoolId"} : setSiteFormText(s, f, "X")
    \/ setSiteFormFeature(s, "showNews")
    \/ \E text \in StatTexts : setSiteFormStat(s, "students", text)
    \/ handleSaveConfig(s)
    \/ \E i \in 1..MaxPending : saveConfigInvokes(s, i)
    \/ \E i \in 1..MaxPending : saveConfigDone(s, i)
    \/ refreshResolves(s)

NextConfig == \E s \in {"s1"} : ConfigStep(s)

SpecConfig == Init /\ [][NextConfig]_vars

\* The Content Manager: the dev signs in, publishes and deletes items in the
\* three collections while time passes.
ContentStep(s) ==
    \/ load(s)
    \/ Navigate(s, "dashboard")
    \/ handleSubmit(s, FALSE, "dev", "p", "")
    \/ \E i \in 1..MaxPending : SubmitSucceeds(s, i)
    \/ setActiveTab(s, "content")
    \/ \E t \in {"news", "events", "gallery"} : setContentTab(s, t)
    \/ setNewItem(s, "url", "u")
    \/ handleAddNews(s)
    \/ handleAddEvent(s)
    \/ handleAddGallery(s)
    \/ \E i \in 1..MaxItems : handleDeleteNews(s, i)
    \/ \E i \in 1..MaxItems : deleteEvent(s, i)
    \/ \E i \in 1..MaxItems : deleteGallery(s, i)
    \/ \E i \in 1..MaxPending : saveDone(s, i)
    \/ refreshResolves(s)

NextContent == (\E s \in {"s1"} : ContentStep(s)) \/ Tick

SpecContent == Init /\ [][NextContent]_vars

\* Publishing news: the dev types into the inputs of the shown content form
\* (the draft is shared by the three forms), publishes and deletes news while
\* time passes.
NewsInputs == {"title", "url", "id", "active"}

NewsStep(s) ==
    \/ load(s)
    \/ Navigate(s, "dashboard")
    \/ handleSubmit(s, FALSE, "dev", "p", "")
    \/ \E i \in 1..MaxPending : SubmitSucceeds(s, i)
    \/ setActiveTab(s, "content")
    \/ \E t \in {"news", "gallery"} : setContentTab(s, t)
    \/ \E f \in DraftFields(dash[s].contentTab) \cap NewsInputs : setNewItem(s, f, "u")
    \/ handleAddNews(s)
    \/ \E i \in 1..MaxItems : handleDeleteNews(s, i)
    \/ \E i \in 1..MaxPending : saveDone(s, i)
    \/ refreshResolves(s)

NextNews == (\E s \in {"s1"} : NewsStep(s)) \/ Tick

SpecNews == Init /\ [][NextNews]_vars

\* One session at work in the console: the dev signs in and uses every
\* handler of the three tabs, publishing while the Store holds fewer than
\* MaxConsoleItems items.
Stored == Len(dbNews) + Len(dbEvents) + Len(dbGallery)

ConsoleStep(s) ==
    \/ load(s)
    \/ Navigate(s, "dashboard")
    \/ handleSubmit(s, FALSE, "dev", "p", "")
    \/ \E i \in 1..MaxPending : SubmitSucceeds(s, i)
    \/ \E t \in {"content", "site", "users"} : setActiveTab(s, t)
    \/ \E t \in {"news", "events", "gallery"} : setContentTab(s, t)
    \/ setNewItem(s, "url", "u")
    \/ (Stored < MaxConsoleItems /\ handleAddNews(s))
    \/ (Stored < MaxConsoleItems /\ handleAddEvent(s))
    \/ (Stored < MaxConsoleItems /\ handleAddGallery(s))
    \/ \E i \in 1..MaxItems : handleDeleteNews(s, i)
    \/ \E i \in 1..MaxItems : deleteEvent(s, i)
    \/ \E i \in 1..MaxItems : deleteGallery(s, i)
    \/ \E i \in 1..MaxPending : saveDone(s, i)
    \/ setSiteFormText(s, "schoolName", "X")
    \/ handleSaveConfig(s)
    \/ \E i \in 1..MaxPending : saveConfigInvokes(s, i)
    \/ \E i \in 1..MaxPending : saveConfigDone(s, i)
    \/ \E i \in 1..MaxUsers : handleUserAction(s, i)
    \/ \E i \in 1..MaxPending : userActionDone(s, i)
    \/ refreshResolves(s)

NextConsole == \E s \in {"s1"} : ConsoleStep(s)

SpecConsole == Init /\ [][NextConsole]_vars

\* Two sessions of the dev at work at the same time while time passes; each
\* opens one tab of its console, and publishes news or saves the site form
\* with its own school name.
SharedStep(s) ==
    \/ load(s)
    \/ Navigate(s, "dashboard")
    \/ handleSubmit(s, FALSE, "dev", "p", "")
    \/ \E i \in 1..MaxPending : SubmitSucceeds(s, i)
    \/ \E t \in {"content", "site"} :
            dash[s].activeTab = "overview" /\ setActiveTab(s, t)
    \/ handleAddNews(s)
    \/ \E i \in 1..MaxPending : saveDone(s, i)
    \/ setSiteFormText(s, "schoolName", s)
    \/ handleSaveConfig(s)
    \/ \E i \in 1..MaxPending : saveConfigInvokes(s, i)
    \/ \E i \in 1..MaxPending : saveConfigDone(s, i)
    \/ refreshResolves(s)

NextShared == (\E s \in Sessions : SharedStep(s)) \/ Tick

SpecShared == Init /\ [][NextShared]_vars

\* Picking images: the dev picks files for the three image fields, removes
\* images, uploads to the gallery and saves the site configuration.
ImagesStep(s) ==
    \/ load(s)
    \/ Navigate(s, "dashboard")
    \/ handleSubmit(s, FALSE, "dev", "p", "")
    \/ \E i \in 1..MaxPending : SubmitSucceeds(s, i)
    \/ \E t \in {"content", "site"} : setActiveTab(s, t)
    \/ setContentTab(s, "gallery")
    \/ \E f \in ImageFields, n \in FileSizes : handleFile(s, f, n)
    \/ \E i \in 1..MaxPending : readerLoaded(s, i)
    \/ \E f \in ImageFields : clearImage(s, f)
    \/ handleAddGallery(s)
    \/ \E i \in 1..MaxPending : saveDone(s, i)
    \/ handleSaveConfig(s)
    \/ \E i \in 1..MaxPending : saveConfigInvokes(s, i)
    \/ \E i \in 1..MaxPending : saveConfigDone(s, i)
    \/ refreshResolves(s)

NextImages == \E s \in {"s1"} : ImagesStep(s)

SpecImages == Init /\ [][NextImages]_vars

---------------------------------------------------------------------------
(* The Store's contract exercised directly, as a caller of ./services/db   *)
(* may: every operation with arguments from small sets, whether or not the *)
(* console ever passes them.  No App is involved: the session state stays  *)
(* as Init leaves it.                                                      *)

uiVars == <<config, user, page, login, home, dash, pending, now, calls, saved>>

\* the arguments of a direct call, in the shape Ret keeps them
Args(email, password, name, uid, role) ==
    [Handler("", NoUser) EXCEPT !.email = email, !.password = password,
        !.name = name, !.uid = uid, !.role = role]

apiRegister(s, email, password, name) ==
    /\ LET o == DbRegister(dbUsers, dbCreds, email, password, name) IN
        /\ Len(o.users) <= MaxUsers
        /\ dbUsers' = o.users
        /\ dbCreds' = o.creds
        /\ dbSession' = IF o.result = "ok"
                        THEN [dbSession EXCEPT ![s] = o.profile] ELSE dbSession
        /\ ret' = Ret("register", s, o.result, Args(email, password, name, 0, ""))
    /\ UNCHANGED <<dbConfig, dbNews, dbEvents, dbGallery, uiVars>>

apiLogin(s, email, password) ==
    /\ LET o == DbLogin(dbUsers, dbCreds, email, password) IN
        /\ dbSession' = IF o.result = "ok"
                        THEN [dbSession EXCEPT ![s] = o.profile] ELSE dbSession
        /\ ret' = Ret("login", s, o.result, Args(email, password, "", 0, ""))
    /\ UNCHANGED <<dbConfig, dbNews, dbEvents, dbGallery, dbUsers, dbCreds, uiVars>>

apiLogout(s) ==
    /\ dbSession' = [dbSession EXCEPT ![s] = NoUser]
    /\ ret' = Ret("logout", s, "ok", Handler("", NoUser))
    /\ UNCHANGED <<dbConfig, dbNews, dbEvents, dbGallery, dbUsers, dbCreds, uiVars>>

apiUpdateUserRole(s, uid, role) ==
    /\ LET o == DbUpdateUserRole(dbUsers, uid, role) IN
        /\ dbUsers' = o.users
        /\ ret' = Ret("updateUserRole", s, o.result, Args("", "", "", uid, role))
    /\ UNCHANGED <<dbConfig, dbNews, dbEvents, dbGallery, dbCreds, dbSession, uiVars>>

NextStore ==
    \E s \in {"s1"} :
        \/ \E a \in {x \in AuthInputs : x[1]} : apiRegister(s, a[2], a[3], a[4])
        \/ \E a \in AuthInputs : apiLogin(s, a[2], a[3])
        \/ apiLogout(s)
        \/ \E uid \in 1..(MaxUsers + 1), role \in {"editor", "pending"} :
                apiUpdateUserRole(s, uid, role)

SpecStore == Init /\ [][NextStore]_vars

\* Saving the configuration while moving between the home page and the
\* console: the dev edits the school name and clicks Save Changes.
SavingStep(s) ==
    \/ load(s)
    \/ \E p \in {"home", "dashboard"} : Navigate(s, p)
    \/ handleSubmit(s, FALSE, "dev", "p", "")
    \/ \E i \in 1..MaxPending : SubmitSucceeds(s, i)
    \/ setActiveTab(s, "site")
    \/ \E v \in {"X", "Y"} : setSiteFormText(s, "schoolName", v)
    \/ handleSaveConfigWithin(s, MaxSaves)
    \/ \E i \in 1..MaxSaves : saveConfigInvokes(s, i)
    \/ \E i \in 1..MaxSaves : saveConfigDone(s, i)
    \/ refreshResolves(s)

NextSaving == \E s \in {"s1"} : SavingStep(s)

SpecSaving == Init /\ [][NextSaving]_vars

\* A dev and a staff member at work at the same time: the staff member
\* registers, signs in and publishes news; the dev approves and revokes.
DevStep(s) ==
    \/ load(s)
    \/ Navigate(s, "dashboard")
    \/ handleSubmit(s, FALSE, "dev", "p", "")
    \/ \E i \in 1..MaxPending : SubmitSucceeds(s, i)
    \/ setActiveTab(s, "users")
    \/ \E i \in 1..MaxUsers : handleUserAction(s, i)
    \/ \E i \in 1..MaxPending : userActionDone(s, i)
    \/ refreshResolves(s)

StaffStep(s) ==
    \/ load(s)
    \/ \E p \in {"login", "dashboard"} : Navigate(s, p)
    \/ handleSubmit(s, TRUE, "a", "p", "Ann")
    \/ handleSubmit(s, FALSE, "a", "p", "")
    \/ \E i \in 1..MaxPending : SubmitSucceeds(s, i)
    \/ \E i \in 1..MaxPending : SubmitFails(s, i)
    \/ setActiveTab(s, "content")
    \/ handleAddNews(s)
    \/ \E i \in 1..MaxPending : saveDone(s, i)
    \/ refreshResolves(s)

NextStaff == DevStep("s1") \/ StaffStep("s2")

SpecStaff == Init /\ [][NextStaff]_vars

\* Visitors of the home page, with the Store's content and feature flags
\* written directly through ./services/db.

\* an item with this id, and a news item with this id and active flag
Item(id) == [k \in {"id"} |-> id]
NewsItem(id, active) == [k \in {"id", "active"} |-> IF k = "id" THEN id ELSE active]

\* the collections the Store is handed: news with inactive items before,
\* between and after active ones; events and gallery around the lengths shown
NewsLists ==
    { <<>>, <<NewsItem("n1", FALSE)>>,
      <<NewsItem("n1", TRUE), NewsItem("n2", FALSE), NewsItem("n3", TRUE)>>,
      <<NewsItem("n2", FALSE), NewsItem("n3", TRUE), NewsItem("n1", TRUE)>> }
EventLists ==
    { <<Item("e1"), Item("e2")>>,
      <<Item("e4"), Item("e3"), Item("e2"), Item("e1")>> }
GalleryLists ==
    { <<Item("g1"), Item("g2"), Item("g3"), Item("g4")>>,
      <<Item("g5"), Item("g4"), Item("g3"), Item("g2"), Item("g1")>> }

\* db.saveNews(items), db.saveEvents(items), db.saveGallery(items)
apiSave(s, c, items) ==
    /\ c \in {"news", "events", "gallery"}
    /\ dbNews' = IF c = "news" THEN DbSave(dbNews, items) ELSE dbNews
    /\ dbEvents' = IF c = "events" THEN DbSave(dbEvents, items) ELSE dbEvents
    /\ dbGallery' = IF c = "gallery" THEN DbSave(dbGallery, items) ELSE dbGallery
    /\ ret' = Ret(CASE c = "news" -> "saveNews"
                    [] c = "events" -> "saveEvents"
                    [] c = "gallery" -> "saveGallery",
                  s, "ok", Handler("", NoUser))
    /\ UNCHANGED <<dbConfig, dbUsers, dbCreds, dbSession, uiVars>>

\* db.updateConfig(next)
apiUpdateConfig(s, next) ==
    /\ dbConfig' = DbUpdateConfig(dbConfig, next)
    /\ ret' = Ret("updateConfig", s, "ok", Handler("", NoUser))
    /\ UNCHANGED <<dbNews, dbEvents, dbGallery, dbUsers, dbCreds, dbSession, uiVars>>

HomeStep(s) ==
    \/ load(s)
    \/ Reload(s)
    \/ \E p \in {"home", "login"} : Navigate(s, p)
    \/ \E c \in {"news", "events", "gallery"} : homeResolves(s, c)

NextHome ==
    \/ \E s \in {"s1"} : HomeStep(s)
    \/ \E items \in NewsLists : apiSave("s2", "news", items)
    \/ \E items \in EventLists : apiSave("s2", "events", items)
    \/ \E items \in GalleryLists : apiSave("s2", "gallery", items)
    \/ \E b \in BOOLEAN :
         apiUpdateConfig("s2", [DEFAULT_CONFIG EXCEPT !.features.showNews = b])

SpecHome == Init /\ [][NextHome]_vars

---------------------------------------------------------------------------
(* Properties of the account directory and of the console's gate *)

Last(q) == q[Len(q)]

\* session s starts a handler of the given kind in this step
Starts(s, kind) ==
    /\ Len(pending'[s]) = Len(pending[s]) + 1
    /\ Last(pending'[s]).kind = kind

\* the uids of the profiles the directory holds with role r
RoleSet(r) == {dbUsers[i].uid : i \in {j \in DOMAIN dbUsers : dbUsers[j].role = r}}

\* C3: a register whose email is already registered fails with
\* DuplicateAccount and leaves the directory and the credentials as they were:
\* the first registration's profile is untouched, nothing is added.
C3_DuplicateRegisterRejected ==
    [][(/\ ret'.op = "register"
        /\ \E i \in DOMAIN dbUsers : dbUsers[i].email = ret'.email)
       => (/\ ret'.result = "DuplicateAccount"
           /\ dbUsers' = dbUsers
           /\ dbCreds' = dbCreds)]_vars

\* C3 witness: the second registration of "a" has just failed, and the
\* directory holds the profile of the first
C3_Witness ==
    /\ ret.op = "register"
    /\ ret.result = "DuplicateAccount"
    /\ ret.email = "a"
    /\ Len(dbUsers) = 3
    /\ dbUsers[3].email = "a"

\* C4: a login whose email and password match no credential fails with
\* InvalidCredentials and creates no session: the session marker
\* (getCurrentUser) and the App's user are what they were before.
C4_FailedLoginNoSession ==
    [][(/\ ret'.op = "login"
        /\ [email |-> ret'.email, password |-> ret'.password] \notin dbCreds)
       => (/\ ret'.result = "InvalidCredentials"
           /\ dbSession' = dbSession
           /\ user' = user)]_vars

\* C4 witness: a login has just failed in a session that is signed in, and
\* the session is still there
C4_Witness ==
    /\ ret.op = "login"
    /\ ret.result = "InvalidCredentials"
    /\ dbSession[ret.sess] # NoUser
    /\ user[ret.sess] = dbSession[ret.sess]

\* C6: Approve in the row of a profile shown as pending asks for editor, Revoke
\* in the row of a profile shown as editor asks for pending; the Store then
\* sets exactly that profile's role and no other profile changes; and the next
\* directory read shows the directory as the Store holds it.
C6_ApproveThenRevoke ==
    [][/\ \A s \in Sessions :
            Starts(s, "handleUserAction") =>
                \E i \in DOMAIN dash[s].users :
                    /\ Last(pending'[s]).uid = dash[s].users[i].uid
                    /\ dash[s].users[i].role = "pending"
                            => Last(pending'[s]).role = "editor"
                    /\ dash[s].users[i].role = "editor"
                            => Last(pending'[s]).role = "pending"
       /\ (ret'.op = "updateUserRole" /\ ret'.result = "ok") =>
            /\ Len(dbUsers') = Len(dbUsers)
            /\ \A i \in DOMAIN dbUsers :
                    dbUsers'[i] = IF dbUsers[i].uid = ret'.uid
                                  THEN [dbUsers[i] EXCEPT !.role = ret'.role]
                                  ELSE dbUsers[i]
       /\ \A s \in Sessions :
            (/\ page[s] = "dashboard" /\ page'[s] = "dashboard"
             /\ "users" \in dash[s].reading /\ dash'[s].reading = {})
            => dash'[s].users = dbUsers'
      ]_vars

\* C6 witness: the revoke of the registered profile (uid 3), which the table
\* showed as editor after its approval, has just completed
C6_Witness ==
    /\ ret.op = "updateUserRole"
    /\ ret.result = "ok"
    /\ ret.uid = 3
    /\ ret.role = "pending"
    /\ DbRoleOf(dbUsers, 3) = "pending"

\* C7 (as claimed): the profiles with role dev and those with role viewer are
\* the ones of the initial directory
C7_DevAndViewerSetsFixed ==
    /\ RoleSet("dev") = {1}
    /\ RoleSet("viewer") = {2}

GuardedReads == {"getUsers", "updateUserRole"}

\* C8 (as claimed): getUsers and updateUserRole are invoked only while the
\* session's current user has role dev
C8_OnlyWhileDevSession ==
    \A c \in calls : c.op \in GuardedReads => c.cur.role = "dev"

\* C5: updateUserRole with a uid that is not in the directory fails with
\* NotFound and leaves the directory as it was: no role changes, no profile is
\* added.
C5_UnknownUidNotFound ==
    [][(/\ ret'.op = "updateUserRole"
        /\ ~ \E i \in DOMAIN dbUsers : dbUsers[i].uid = ret'.uid)
       => (/\ ret'.result = "NotFound"
           /\ dbUsers' = dbUsers)]_vars

\* C5 witness: a role update of a uid no profile has (4, in a directory of
\* three) has just failed
C5_Witness ==
    /\ ret.op = "updateUserRole"
    /\ ret.result = "NotFound"
    /\ ret.uid = 4
    /\ Len(dbUsers) = 3

---------------------------------------------------------------------------
(* Properties of the Config Model and of the Content Repository *)

\* C1: a getConfig that follows an updateConfig(v), with no other write in
\* between, returns v: App's load sets config to a record equal to the last
\* one handed to updateConfig in every field, the nested stats and features
\* records included.
C1_ConfigRoundTrip ==
    (ret.op = "getConfig" /\ saved.hasConfig) => config[ret.sess] = saved.config

\* C1 witness: after a reload, App has just loaded a configuration that was
\* saved with an edited text field, an edited statistic and a toggled feature
C1_Witness ==
    /\ ret.op = "getConfig"
    /\ saved.hasConfig
    /\ config[ret.sess] = saved.config
    /\ saved.config.schoolName # DEFAULT_CONFIG.schoolName
    /\ saved.config.stats # DEFAULT_CONFIG.stats
    /\ saved.config.features # DEFAULT_CONFIG.features

\* C2: a list that follows a save(S), with no other write in between, returns
\* exactly S for each of the three collections: the reads of refreshData
\* deliver the sequence last handed to saveNews, saveEvents and saveGallery
\* (the empty sequence while nothing was saved, or when it was saved), same
\* items, same order, nothing of the previous contents.
C2_SaveThenList ==
    ret.op = "list" =>
        /\ dash[ret.sess].news = saved.news
        /\ dash[ret.sess].events = saved.events
        /\ dash[ret.sess].gallery = saved.gallery
        /\ dbNews = saved.news
        /\ dbEvents = saved.events
        /\ dbGallery = saved.gallery

\* C2 witness: the Dashboard has just read back a news list of two items
\* published at different times, the later one first
C2_Witness ==
    /\ ret.op = "list"
    /\ Len(saved.news) = 2
    /\ dash[ret.sess].news = saved.news
    /\ saved.news[1]["id"] # saved.news[2]["id"]

---------------------------------------------------------------------------
(* Properties of the console's gate *)

ContentMutators == {"updateConfig", "saveNews", "saveEvents", "saveGallery"}

Mutators == ContentMutators \cup {"updateUserRole"}

\* C9 (as claimed): updateConfig, saveNews, saveEvents and saveGallery are
\* invoked only by handlers of a session whose profile has role editor or
\* dev; none is invoked for a viewer
C9_OnlyEditorOrDevMutate ==
    \A c \in calls : c.op \in ContentMutators => c.by.role \in {"editor", "dev"}

\* C10 (as claimed): no mutator is invoked while the session has no current
\* user or a current user of role pending
C10_NoMutatorWithoutConsole ==
    \A c \in calls : c.op \in Mutators => (c.cur # NoUser /\ c.cur.role # "pending")

---------------------------------------------------------------------------
(* Signing in and out.  The session registers or signs in, publishes news, *)
(* logs out through the user interface and reloads; db.logout() is also    *)
(* called directly at any time, as by another tab of the same browser,     *)
(* session or no session.                                                  *)

LogoutAuthInputs ==
    { <<TRUE, "a", "p", "Ann">>, <<FALSE, "dev", "p", "">>, <<FALSE, "a", "p", "">> }

LogoutStep(s) ==
    \/ load(s)
    \/ Reload(s)
    \/ \E p \in {"home", "login", "dashboard"} : Navigate(s, p)
    \/ handleLogout(s)
    \/ apiLogout(s)
    \/ \E a \in LogoutAuthInputs : handleSubmit(s, a[1], a[2], a[3], a[4])
    \/ \E i \in 1..MaxPending : SubmitSucceeds(s, i)
    \/ \E i \in 1..MaxPending : SubmitFails(s, i)
    \/ setActiveTab(s, "content")
    \/ handleAddNews(s)
    \/ \E i \in 1..MaxPending : saveDone(s, i)
    \/ refreshResolves(s)

NextLogout == \E s \in {"s1"} : LogoutStep(s)

SpecLogout == Init /\ [][NextLogout]_vars

---------------------------------------------------------------------------
(* User Management by two sessions at the same time: both sign in as the   *)
(* dev, or register, and approve and revoke in the users table.            *)

RolesAuthInputs == { <<TRUE, "a", "p", "Ann">>, <<FALSE, "dev", "p", "">> }

RolesStep(s) ==
    \/ load(s)
    \/ Navigate(s, "dashboard")
    \/ \E a \in RolesAuthInputs : handleSubmit(s, a[1], a[2], a[3], a[4])
    \/ \E i \in 1..MaxPending : SubmitSucceeds(s, i)
    \/ \E i \in 1..MaxPending : SubmitFails(s, i)
    \/ handleLogout(s)
    \/ setActiveTab(s, "users")
    \/ \E i \in 1..MaxUsers : handleUserAction(s, i)
    \/ \E i \in 1..MaxPending : userActionDone(s, i)
    \/ refreshResolves(s)

NextRoles == \E s \in Sessions : RolesStep(s)

SpecRoles == Init /\ [][NextRoles]_vars

---------------------------------------------------------------------------
(* Properties of one session's handlers *)

\* session s ends, in this step, a handler that its Dashboard still shows
EndsShown(s) ==
    \E i \in DOMAIN pending[s] :
        /\ pending'[s] = RemoveAt(pending[s], i)
        /\ pending[s][i].kind \in DashKinds
        /\ pending[s][i].alive

\* C11: read-your-writes within one session.  A handler issues no read when
\* it is called; when its Store write has completed, the Store holds what was
\* written and only then the handler issues its refresh reads (save config
\* sets the in-memory config to the record written instead); and when the
\* reads resolve, the in-memory lists are the ones the Store holds, which are
\* the ones last written.
C11_RefreshAfterWrite ==
    [][\A s \in Sessions :
        /\ (\E k \in DashKinds : Starts(s, k)) => dash'[s].reading = dash[s].reading
        /\ (/\ ret'.sess = s
            /\ ret'.op \in {"saveNews", "saveEvents", "saveGallery", "updateUserRole"}
            /\ ret'.result = "ok"
            /\ EndsShown(s))
           => (/\ dash'[s].reading = RefreshReads(user[s])
               /\ dbNews' = saved'.news
               /\ dbEvents' = saved'.events
               /\ dbGallery' = saved'.gallery
               /\ ret'.op = "updateUserRole" => DbRoleOf(dbUsers', ret'.uid) = ret'.role)
        /\ (ret'.sess = s /\ ret'.op = "updateConfig")
           => (config'[s] = saved'.config /\ dbConfig' = saved'.config)
        /\ (ret'.sess = s /\ ret'.op = "list")
           => (/\ dash'[s].news = saved'.news
               /\ dash'[s].events = saved'.events
               /\ dash'[s].gallery = saved'.gallery
               /\ dash'[s].users = dbUsers')
      ]_vars

\* C11 witness: after a gallery add, a config save and a revoke of the viewer,
\* the refresh has just shown the session what it wrote
C11_Witness ==
    /\ ret.op = "list"
    /\ Len(saved.gallery) = 1
    /\ dash[ret.sess].gallery = saved.gallery
    /\ saved.hasConfig
    /\ config[ret.sess] = saved.config
    /\ DbRoleOf(dbUsers, 2) = "pending"
    /\ dash[ret.sess].users = dbUsers

---------------------------------------------------------------------------
(* Properties of sessions sharing the Store *)

\* C12: save and updateConfig are unconditional last-writer-wins overwrites.
\* Whatever the Store held and whichever session wrote it, a save or an
\* updateConfig that completes succeeds (no error, no conflict signal) and
\* leaves the Store holding exactly the sequence, or the record, it was
\* handed; an item another session added and that is not in that sequence is
\* gone.
C12_LastWriterWins ==
    [][/\ ret'.op \in {"saveNews", "saveEvents", "saveGallery"}
            => (/\ ret'.result = "ok"
                /\ dbNews' = saved'.news
                /\ dbEvents' = saved'.events
                /\ dbGallery' = saved'.gallery)
       /\ ret'.op = "updateConfig"
            => (ret'.result = "ok" /\ dbConfig' = saved'.config)
      ]_vars

\* C12 witness: both sessions loaded the empty news list and each published
\* an item; the later save has just completed, the Store holds its item alone,
\* and the item the other session published and still shows is not stored
C12_Witness ==
    /\ ret.op = "saveNews"
    /\ Len(dbNews) = 1
    /\ \E s \in Sessions \ {ret.sess} :
        /\ Len(dash[s].news) = 1
        /\ dash[s].news[1] # dbNews[1]

---------------------------------------------------------------------------
(* Properties of registration, of the session and of roles *)

\* C13: a register that succeeds adds exactly one profile to the directory,
\* with the email given and role pending, and changes no other; that profile
\* becomes the session's current user and App's user; and the session is
\* taken to the dashboard, which shows it the pending notice and no console.
C13_RegisterCreatesPending ==
    [][(ret'.op = "register" /\ ret'.result = "ok")
       => (/\ Len(dbUsers') = Len(dbUsers) + 1
           /\ SubSeq(dbUsers', 1, Len(dbUsers)) = dbUsers
           /\ Last(dbUsers').email = ret'.email
           /\ Last(dbUsers').role = "pending"
           /\ \A i \in DOMAIN dbUsers : dbUsers[i].uid # Last(dbUsers').uid
           /\ dbSession'[ret'.sess] = Last(dbUsers')
           /\ user'[ret'.sess] = Last(dbUsers')
           /\ page'[ret'.sess] = "dashboard"
           /\ user'[ret'.sess].role = "pending")
      ]_vars

\* C13 witness: "b" has just registered, is the third profile of the
\* directory and is on the dashboard as a pending user
C13_Witness ==
    /\ ret.op = "register"
    /\ ret.result = "ok"
    /\ ret.email = "b"
    /\ Len(dbUsers) = 3
    /\ user[ret.sess] = dbUsers[3]
    /\ page[ret.sess] = "dashboard"
    /\ ~ConsoleShown(ret.sess)

\* C14: logout clears the session and is idempotent.  Every logout succeeds
\* and leaves the session without a current user, whether or not it had one;
\* without one, the Store is left exactly as it was; no other session's
\* marker, no profile, credential, configuration or content collection
\* changes; and the logout of the user interface leaves App without a user.
C14_LogoutIdempotent ==
    [][\A s \in Sessions :
        /\ (ret'.op = "logout" /\ ret'.sess = s)
           => (/\ ret'.result = "ok"
               /\ dbSession'[s] = NoUser
               /\ \A o \in Sessions \ {s} : dbSession'[o] = dbSession[o]
               /\ dbSession[s] = NoUser => dbSession' = dbSession
               /\ dbUsers' = dbUsers
               /\ dbCreds' = dbCreds
               /\ dbConfig' = dbConfig
               /\ dbNews' = dbNews
               /\ dbEvents' = dbEvents
               /\ dbGallery' = dbGallery)
        /\ handleLogout(s) => (user'[s] = NoUser /\ dbSession'[s] = NoUser)
      ]_vars

\* C14 witness: the registered user has just logged out; the session has no
\* current user, and the directory, the credentials and the news published
\* before are all there
C14_Witness ==
    /\ ret.op = "logout"
    /\ dbSession[ret.sess] = NoUser
    /\ user[ret.sess] = NoUser
    /\ Len(dbUsers) = 3
    /\ [email |-> "a", password |-> "p"] \in dbCreds
    /\ Len(dbNews) = 1

\* the profile the directory d holds for email e
ProfileOf(d, e) == d[CHOOSE i \in DOMAIN d : d[i].email = e]

\* C15: getCurrentUser() is the profile of the last login or register that
\* succeeded and was not followed by a logout, and null otherwise: the session
\* marker is empty at first, becomes the profile of the account when a login
\* or register succeeds, becomes empty at a logout and changes at no other
\* step; and App's load sets the in-memory user to the marker, with no login
\* or register taking place.
C15_SessionRestored ==
    /\ \A s \in Sessions : dbSession[s] = NoUser
    /\ [][\A s \in Sessions :
            /\ IF ret'.sess = s /\ ret'.op \in {"login", "register"} /\ ret'.result = "ok"
               THEN dbSession'[s] = ProfileOf(dbUsers', ret'.email)
               ELSE IF ret'.sess = s /\ ret'.op = "logout"
               THEN dbSession'[s] = NoUser
               ELSE dbSession'[s] = dbSession[s]
            /\ load(s) => (/\ user'[s] = dbSession[s]
                           /\ ret'.op = "getConfig"
                           /\ dbCreds' = dbCreds)
       ]_vars

\* C15 witness: after a reload, App has just loaded and the registered user
\* "a" is signed in again
C15_Witness ==
    /\ ret.op = "getConfig"
    /\ user[ret.sess] # NoUser
    /\ user[ret.sess].email = "a"
    /\ user[ret.sess] = dbSession[ret.sess]

---------------------------------------------------------------------------
(* Properties of the items and of the configuration *)

\* no two items of the list xs have the same id
IdsDistinct(xs) ==
    \A i, j \in DOMAIN xs : i # j => xs[i]["id"] # xs[j]["id"]

\* C16 (as claimed): in each collection of the Store the ids of the items are
\* pairwise distinct
C16_IdsPairwiseDistinct ==
    /\ IdsDistinct(dbNews)
    /\ IdsDistinct(dbEvents)
    /\ IdsDistinct(dbGallery)

\* C17 (as claimed): the four stats of the persisted configuration are
\* non-negative integers
C17_StatsNonNegative ==
    \A k \in {"students", "teachers", "awards", "years"} : dbConfig.stats[k] \in Nat

\* the record cfg has every field of a SiteConfig, each with a value of its
\* type
Populated(cfg) ==
    /\ DOMAIN cfg = DOMAIN DEFAULT_CONFIG
    /\ \A f \in SiteTextFields \cup {"heroImage", "principalPhoto"} : cfg[f] \in STRING
    /\ DOMAIN cfg.stats = DOMAIN DEFAULT_CONFIG.stats
    /\ \A k \in DOMAIN cfg.stats : cfg.stats[k] \in Int
    /\ DOMAIN cfg.features = DOMAIN DEFAULT_CONFIG.features
    /\ \A k \in DOMAIN cfg.features : cfg.features[k] \in BOOLEAN

\* C18: the Store holds one SiteConfig and it is fully populated: it is the
\* default record until the first updateConfig, after any edits and saves it
\* still has every field, and each getConfig of App's load succeeds and
\* delivers it (so the in-memory config and the form are fully populated too).
C18_ConfigPopulated ==
    /\ Populated(dbConfig)
    /\ ~saved.hasConfig => dbConfig = DEFAULT_CONFIG
    /\ ret.op = "getConfig" => (ret.result = "ok" /\ config[ret.sess] = dbConfig)
    /\ \A s \in Sessions : Populated(config[s]) /\ Populated(dash[s].siteForm)

\* C18 witness: App has just loaded a configuration saved with the Students
\* input cleared, the news feature switched off and the school id changed
C18_Witness ==
    /\ ret.op = "getConfig"
    /\ saved.hasConfig
    /\ config[ret.sess] = dbConfig
    /\ dbConfig.stats["students"] = 0
    /\ dbConfig.features["showNews"] = FALSE
    /\ dbConfig.schoolId # DEFAULT_CONFIG.schoolId

---------------------------------------------------------------------------
(* Properties of roles under concurrent user management *)

\* C19: a dev never changes role.  No approve or revoke is ever started for
\* a profile the directory holds as dev, and in every step every profile that
\* is dev stays dev, whatever the sessions do.
C19_DevStaysDev ==
    [][/\ \A s \in Sessions :
            Starts(s, "handleUserAction")
                => DbRoleOf(dbUsers, Last(pending'[s]).uid) # "dev"
       /\ \A i \in DOMAIN dbUsers :
            dbUsers[i].role = "dev" => dbUsers'[i].role = "dev"
      ]_vars

\* C19 witness: with both sessions signed in as the dev, a role change of the
\* viewer has just completed and the dev is still dev
C19_Witness ==
    /\ ret.op = "updateUserRole"
    /\ ret.result = "ok"
    /\ ret.uid = 2
    /\ \A s \in Sessions : user[s].role = "dev"
    /\ DbRoleOf(dbUsers, 1) = "dev"

---------------------------------------------------------------------------
(* Properties of published news *)

\* the ids Date.now().toString() can give
TimeIds == { ToString(n) : n \in 1..MaxClock }

\* a news item as handleAddNews builds it: id from the clock, active
NewsItemOk(x) ==
    /\ {"id", "active"} \subseteq DOMAIN x
    /\ x["id"] \in TimeIds
    /\ x["active"] = TRUE

\* C20: every news item created through the console is stored with
\* active = true and an id derived from the time of its creation: the item a
\* starting handleAddNews hands to the Store has id = the current time as a
\* string and active = true and carries the typed draft values in its other
\* fields, and every news item of the Store and of every cached list has a
\* time id and is active.
C20_NewsIdAndActive ==
    [][/\ \A i \in DOMAIN dbNews' : NewsItemOk(dbNews'[i])
       /\ \A s \in Sessions :
            /\ \A i \in DOMAIN dash'[s].news : NewsItemOk(dash'[s].news[i])
            /\ {"id", "active"} \cap DOMAIN dash'[s].newItem = {}
            /\ Starts(s, "handleAddNews") =>
                 LET item == Last(pending'[s]).items[1] IN
                 /\ item["id"] = ToString(now)
                 /\ item["active"] = TRUE
                 /\ DOMAIN item = {"id", "active"} \cup DOMAIN dash[s].newItem
                 /\ \A k \in DOMAIN dash[s].newItem : item[k] = dash[s].newItem[k]
      ]_vars

\* C20 witness: the Store holds a news item published from a draft with a
\* title and a url typed in, with the id of its time of creation and active
C20_Witness ==
    /\ ret.op = "saveNews"
    /\ ret.result = "ok"
    /\ Len(dbNews) = 2
    /\ DOMAIN dbNews[1] = {"id", "active", "title", "url"}
    /\ dbNews[1]["title"] = "u"
    /\ dbNews[1]["id"] = "2"
    /\ dbNews[1]["active"] = TRUE

---------------------------------------------------------------------------
(* Properties of embedded images *)

\* the data URLs of the files that are too large
Oversized == { DataURL(n) : n \in {m \in FileSizes : m > 500 * 1024} }

\* the values of the image fields of a config and of the items of a list
ImagesOf(cfg) == {cfg.heroImage, cfg.principalPhoto}
UrlsOf(xs) == { xs[i]["url"] : i \in {j \in DOMAIN xs : "url" \in DOMAIN xs[j]} }

\* C21: an embedded image reaches a field only if the picked file is at most
\* 500*1024 bytes.  No image field of a form, of a draft, of the in-memory
\* config or of the Store ever holds the data URL of a larger file, no reader
\* is ever reading one, and the pick of a larger file changes neither the
\* Dashboard state nor the suspended handlers nor the Store.
C21_OnlySmallImages ==
    [][/\ ImagesOf(dbConfig') \cap Oversized = {}
       /\ UrlsOf(dbGallery') \cap Oversized = {}
       /\ \A s \in Sessions :
            /\ ImagesOf(config'[s]) \cap Oversized = {}
            /\ ImagesOf(dash'[s].siteForm) \cap Oversized = {}
            /\ UrlsOf(<<dash'[s].newItem>>) \cap Oversized = {}
            /\ UrlsOf(dash'[s].gallery) \cap Oversized = {}
            /\ \A i \in DOMAIN pending'[s] : pending'[s][i].name \notin Oversized
            /\ \A f \in ImageFields :
                 handleFile(s, f, 500 * 1024 + 1)
                     => UNCHANGED <<dash, pending, storeVars, appVars>>
      ]_vars

\* C21 witness: the image of a file of exactly 500*1024 bytes has been saved
\* as the hero image and uploaded to the gallery, and the form still has it
\* after larger files could have been picked
C21_Witness ==
    /\ dbConfig.heroImage = DataURL(500 * 1024)
    /\ DataURL(500 * 1024) \in UrlsOf(dbGallery)
    /\ \E s \in Sessions : dash[s].siteForm.principalPhoto = DataURL(500 * 1024)

---------------------------------------------------------------------------
(* Properties of the login page *)

\* C22: when login or register fails, the login page shows the error and
\* prior state is untouched.  In the step that completes a failed submit of
\* session s the user, the route, the config, the Dashboard state, the session
\* marker and the directory are what they were, and a LoginPage that is still
\* mounted shows the error of the Store with loading = false; in the step that
\* completes a successful one loading is false as well; and loading is true
\* only while a submit of the mounted LoginPage is in flight.
C22_FailedSubmitLeavesState ==
    [][\A s \in Sessions :
        /\ (ret'.sess = s /\ ret'.op \in {"login", "register"}) =>
             IF ret'.result # "ok"
             THEN /\ user' = user
                  /\ page' = page
                  /\ config' = config
                  /\ dash' = dash
                  /\ storeVars' = storeVars
                  /\ (\A i \in DOMAIN pending[s] :
                        pending[s][i].kind = "handleSubmit" => pending[s][i].alive)
                     => login'[s] = [error |-> ret'.result, loading |-> FALSE]
             ELSE ~login'[s].loading
        /\ login'[s].loading =>
             \E i \in DOMAIN pending'[s] :
                 pending'[s][i].kind = "handleSubmit" /\ pending'[s][i].alive
      ]_vars

\* C22 witness: a register with an email that is taken has just failed on the
\* login page of a session that is signed in: the error is shown, loading is
\* false, the user is still signed in and the page is still the login page
C22_Witness ==
    /\ ret.op = "register"
    /\ ret.result # "ok"
    /\ page[ret.sess] = "login"
    /\ login[ret.sess] = [error |-> ret.result, loading |-> FALSE]
    /\ user[ret.sess].role = "dev"

---------------------------------------------------------------------------
(* Properties of the home page *)

---------------------------------------------------------------------------
(* Properties of the add and delete handlers *)

\* the list of the Dashboard of session s that a handler of this kind works on
ListOf(s, kind) ==
    CASE kind \in {"handleAddNews", "handleDeleteNews"} -> dash[s].news
      [] kind \in {"handleAddEvent", "deleteEvent"} -> dash[s].events
      [] kind \in {"handleAddGallery", "deleteGallery"} -> dash[s].gallery

AddKinds == {"handleAddNews", "handleAddEvent", "handleAddGallery"}

\* C24: each add handler saves the newly minted item followed by the
\* session's current list.  The sequence a starting add hands to the Store is
\* one longer than the list the session shows, its first item is the new one
\* (id of the current time), the listed items follow in their order; and when
\* the save completes the Store's collection is that sequence.
C24_AddPrepends ==
    [][\A s \in Sessions :
        /\ \A k \in AddKinds :
            Starts(s, k) =>
                LET items == Last(pending'[s]).items
                    old == ListOf(s, k)
                IN /\ Len(items) = Len(old) + 1
                   /\ items[1]["id"] = ToString(now)
                   /\ \A f \in DOMAIN dash[s].newItem : items[1][f] = dash[s].newItem[f]
                   /\ \A i \in DOMAIN old : items[i + 1] = old[i]
        /\ \A i \in DOMAIN pending[s] :
            (/\ pending[s][i].kind \in AddKinds
             /\ pending'[s] = RemoveAt(pending[s], i)
             /\ ret'.sess = s /\ ret'.op = pending[s][i].op)
            => pending[s][i].items =
                 (CASE pending[s][i].op = "saveNews" -> dbNews'
                    [] pending[s][i].op = "saveEvents" -> dbEvents'
                    [] pending[s][i].op = "saveGallery" -> dbGallery')
      ]_vars

\* C24 witness: a second event has just been added to the list that showed
\* the first: the Store holds the new one first and the earlier one after it
C24_Witness ==
    /\ ret.op = "saveEvents"
    /\ Len(dbEvents) = 2
    /\ dbEvents[1]["id"] = "2"
    /\ dbEvents[2]["id"] = "1"
    /\ dash[ret.sess].events = <<dbEvents[2]>>

DeleteKinds == {"handleDeleteNews", "deleteEvent", "deleteGallery"}

\* C25 (as claimed): a delete removes exactly one item, the one clicked.  The
\* sequence a starting delete hands to the Store is the session's list without
\* one of its items, the others unchanged and in their order; and when the
\* save completes only that collection of the Store has changed.
C25_DeleteRemovesOne ==
    [][\A s \in Sessions :
        /\ \A k \in DeleteKinds :
            Starts(s, k) =>
                \E i \in DOMAIN ListOf(s, k) :
                    Last(pending'[s]).items = RemoveAt(ListOf(s, k), i)
        /\ \A i \in DOMAIN pending[s] :
            (/\ pending[s][i].kind \in DeleteKinds
             /\ pending'[s] = RemoveAt(pending[s], i)
             /\ ret'.sess = s /\ ret'.op = pending[s][i].op)
            => /\ dbConfig' = dbConfig
               /\ pending[s][i].op # "saveNews" => dbNews' = dbNews
               /\ pending[s][i].op # "saveEvents" => dbEvents' = dbEvents
               /\ pending[s][i].op # "saveGallery" => dbGallery' = dbGallery
      ]_vars

---------------------------------------------------------------------------
(* Properties of role changes *)

\* C26 (as claimed): every role change the console performs on the Store is
\* pending to editor or editor to pending.  In the step in which an
\* updateUserRole of a console handler takes effect, the stored role of the
\* profile was pending and becomes editor, or was editor and becomes pending.
C26_OnlyDefinedTransitions ==
    [][(ret'.op = "updateUserRole" /\ ret'.result = "ok") =>
        \/ /\ DbRoleOf(dbUsers, ret'.uid) = "pending"
           /\ DbRoleOf(dbUsers', ret'.uid) = "editor"
        \/ /\ DbRoleOf(dbUsers, ret'.uid) = "editor"
           /\ DbRoleOf(dbUsers', ret'.uid) = "pending"
      ]_vars

---------------------------------------------------------------------------
(* Properties of saving the configuration *)

\* the handlers of session s that have invoked updateConfig and await it
SavesInFlight(s) ==
    {i \in DOMAIN pending[s] :
        pending[s][i].kind = "handleSaveConfig" /\ pending[s][i].op = "updateConfig"}

\* C27 (as claimed): saving the configuration is ordered and single-flight.
\* No session has two updateConfig calls in flight; the Dashboard's saving
\* flag is true exactly while a save it started has not ended; and the
\* in-memory config changes only in the step in which an updateConfig
\* completes (or App loads), and is then the record persisted.
C27_SingleFlightSave ==
    [][\A s \in Sessions :
        /\ Cardinality(SavesInFlight(s)') <= 1
        /\ dash'[s].saving <=>
             \E i \in DOMAIN pending'[s] :
                 pending'[s][i].kind = "handleSaveConfig" /\ pending'[s][i].alive
        /\ (config'[s] # config[s] /\ page[s] # "init") =>
             /\ ret'.op = "updateConfig"
             /\ ret'.sess = s
             /\ config'[s] = dbConfig'
             /\ config'[s] = saved'.config
      ]_vars

---------------------------------------------------------------------------
(* Properties of the stored role of a session that writes *)

\* C28 (as claimed): whenever a session invokes saveNews, saveEvents,
\* saveGallery or updateConfig, the role the directory holds for the profile
\* of that session is editor or dev
C28_StoredRoleAllowsMutation ==
    \A c \in calls :
        c.op \in ContentMutators => DbRoleOf(dbUsers, c.cur.uid) \in {"editor", "dev"}

---------------------------------------------------------------------------
(* Properties of one session's successive writes *)

\* the items of the sequence xs
Range(xs) == { xs[i] : i \in DOMAIN xs }

\* the collection of the Store a save operation replaces
StoredBy(op) ==
    CASE op = "saveNews" -> dbNews
      [] op = "saveEvents" -> dbEvents
      [] op = "saveGallery" -> dbGallery

\* C29 (as claimed): within a single session no add is lost.  When the save
\* of an add completes, every item the Store's collection held is still in
\* it; when the save of a delete completes, the items that are gone from the
\* collection all carry one id.
C29_NoAddLost ==
    [][\A s \in Sessions : \A i \in DOMAIN pending[s] :
        (/\ pending'[s] = RemoveAt(pending[s], i)
         /\ ret'.sess = s /\ ret'.op = pending[s][i].op
         /\ ret'.op \in {"saveNews", "saveEvents", "saveGallery"})
        => LET before == Range(StoredBy(pending[s][i].op))
               after == Range(pending[s][i].items)
           IN /\ after = Range(StoredBy(ret.op))'
              /\ pending[s][i].kind \in AddKinds => before \subseteq after
              /\ pending[s][i].kind \in DeleteKinds =>
                    \A x, y \in before \ after : x["id"] = y["id"]
      ]_vars

---------------------------------------------------------------------------
(* Properties of the shape of the stored items *)

\* the fields of the record types NewsItem, EventItem and GalleryItem
NewsFields == {"id", "title", "date", "content", "active"}
EventFields == {"id", "title", "date", "location", "description"}
GalleryFields == {"id", "title", "url", "category"}

\* C30 (as claimed): an item created through the console carries only the
\* fields of its own record type: every stored news item has fields of
\* NewsItem only, every stored event fields of EventItem only, every stored
\* gallery item fields of GalleryItem only.
C30_OnlyOwnFields ==
    /\ \A i \in DOMAIN dbNews : DOMAIN dbNews[i] \subseteq NewsFields
    /\ \A i \in DOMAIN dbEvents : DOMAIN dbEvents[i] \subseteq EventFields
    /\ \A i \in DOMAIN dbGallery : DOMAIN dbGallery[i] \subseteq GalleryFields

====
